---- MODULE Spec2Model ----
(***************************************************************************)
(* A model of the typestate builders of phenopacket-builder (src/v2).      *)
(*                                                                         *)
(* A builder value is a record: `ty` names the builder struct, `data` is   *)
(* the tuple of typestate markers the struct carries in its PhantomData,   *)
(* and the other fields are the struct's fields.  Option<T> is a sequence  *)
(* of length 0 (None) or 1 (Some).  Every builder method is an operator    *)
(* from the consumed builder (self) and the arguments to the returned      *)
(* builder; the impl header that says for which marker types the method    *)
(* exists is the guard of the action that applies the operator.            *)
(*                                                                         *)
(* The state is one call chain: `b` is the builder the chain holds, `out`  *)
(* the value the chain ended with, `from` the builder that build consumed. *)
(***************************************************************************)
EXTENDS Integers, Sequences, FiniteSets, TLC

VARIABLES
    b,          \* the builder held by the call chain, or Moved
    out,        \* the finished record (or the error) the chain returned, or NoRecord
    from,       \* the builder value consumed by the build that produced `out`
    panicked,   \* TRUE once an expect(..) inside a build has failed
    replaced    \* the Option<Element> that the last variant selection overwrote

vars == <<b, out, from, panicked, replaced>>

(***************************************************************************)
(* Bounds of the model.                                                    *)
(***************************************************************************)
MaxLen == 2     \* longest collection a builder accumulates

(***************************************************************************)
(* Option, markers, Default, Build.                                        *)
(***************************************************************************)
None == <<>>
Some(v) == <<v>>
IsSome(o) == Len(o) = 1

\* Option::expect is the value of Some and panics on None: a build that
\* expects a None returns Panic.  A panic unwinds through every caller:
\* unwind(v, r) is r unless the nested build that computed v panicked.
Panic == [ty |-> "panic"]
expect(o) == o[1]
unwind(v, r) == IF v = Panic THEN Panic ELSE r

\* Option::unwrap_or / unwrap_or_default.
unwrap_or(o, d) == IF o = None THEN d ELSE o[1]

Set == "Set"
Unset == "Unset"

\* derive(Default): Unset derives Default, Set does not, and the derive on a
\* builder struct asks Default of each of its marker parameters.
\* Both markers deriving Default.
DeriveDefault_Set_too(data) == TRUE

DeriveDefault(data) == \A i \in 1..Len(data) : data[i] = Unset

Moved == [ty |-> "moved"]
NoRecord == [ty |-> "none"]

AllSet(data) == \A i \in 1..Len(data) : data[i] = Set

\* A build that returns U::default() in place of self.into().
Into_build_default(self) == [ty |-> self.ty]

\* impl<T, U> Build<U> for T where T: Into<U>, with T = U: a value of the
\* record type builds into itself.
Into_build(self) == self

\* `impl Into<R>`: the record type itself.  No From<builder> for R exists, and
\* none can: the blanket impl above would then overlap the builder's Build<R>.
Into_impl(arg, R) == arg.ty = R

(***************************************************************************)
(* OntologyClass                                                           *)
(***************************************************************************)
oc(id, label) == [ty |-> "OntologyClass", id |-> id, label |-> label]

OntologyClassBuilder_default(data) ==
    [ty |-> "OntologyClassBuilder", id |-> None, label |-> None, data |-> data]

\* id_label with its two arguments in each other's place.
OntologyClassBuilder_id_label_swapped(self, id, label) ==
    [ty |-> "OntologyClassBuilder", id |-> Some(label), label |-> Some(id),
     data |-> <<Set>>]

OntologyClassBuilder_id_label(self, id, label) ==
    [ty |-> "OntologyClassBuilder", id |-> Some(id), label |-> Some(label),
     data |-> <<Set>>]

OntologyClassBuilder_build(self) ==
    IF self.id = None \/ self.label = None THEN Panic
    ELSE [ty |-> "OntologyClass", id |-> expect(self.id), label |-> expect(self.label)]

\* The types that implement Build<OntologyClass>.
Build_OntologyClass_impl(arg) ==
    arg.ty = "OntologyClass" \/ (arg.ty = "OntologyClassBuilder" /\ arg.data = <<Set>>)

Build_OntologyClass(arg) ==
    IF arg.ty = "OntologyClass" THEN Into_build(arg) ELSE OntologyClassBuilder_build(arg)

\* The id/label pairs of the call chains, and the values a call site can
\* offer where an OntologyClass is wanted: records, and builders in every
\* state a chain of their methods reaches.
OntologyClassPairs ==
    {<<"HP:0001250", "Seizure">>}

OntologyClassArgs ==
    LET fresh == OntologyClassBuilder_default(<<Unset>>)
    IN  {oc(p[1], p[2]) : p \in OntologyClassPairs} \cup {fresh} \cup
        {OntologyClassBuilder_id_label(fresh, p[1], p[2]) : p \in OntologyClassPairs}

(***************************************************************************)
(* Timestamp                                                               *)
(***************************************************************************)
Timestamp(seconds, nanos) == [ty |-> "Timestamp", seconds |-> seconds, nanos |-> nanos]

TimestampBuilder_default(data) ==
    [ty |-> "TimestampBuilder", timestamp |-> None, data |-> data]

TimestampBuilder_seconds_nanos(self, seconds, nanos) ==
    [ty |-> "TimestampBuilder", timestamp |-> Some(Timestamp(seconds, nanos)),
     data |-> <<Set>>]

\* str::parse::<prost_types::Timestamp> on the strings of the call chains:
\* Ok(timestamp) or Err(TimestampError).
parse(s) ==
    CASE s = "1970-01-01T00:10:05Z" -> [ok |-> TRUE, v |-> Timestamp(605, 0)]
      [] s = "1970-01-01T00:02:05.000000011Z" -> [ok |-> TRUE, v |-> Timestamp(125, 11)]
      [] OTHER -> [ok |-> FALSE, v |-> [ty |-> "TimestampError", input |-> s]]

\* iso8601timestamp with unwrap_or_default() in place of `?`.
TimestampBuilder_iso8601timestamp_unwrap_or_default(self, timestamp) ==
    [ok |-> TRUE,
     v |-> [ty |-> "TimestampBuilder",
            timestamp |-> Some(IF parse(timestamp).ok THEN parse(timestamp).v
                                                      ELSE Timestamp(0, 0)),
            data |-> <<Set>>]]

\* Result<TimestampBuilder<Set>, TimestampError>: `?` returns the parser's
\* error before the builder is constructed.
TimestampBuilder_iso8601timestamp(self, timestamp) ==
    IF parse(timestamp).ok
    THEN [ok |-> TRUE,
          v |-> [ty |-> "TimestampBuilder", timestamp |-> Some(parse(timestamp).v),
                 data |-> <<Set>>]]
    ELSE [ok |-> FALSE, v |-> parse(timestamp).v]

TimestampBuilder_build(self) ==
    IF self.timestamp = None THEN Panic ELSE expect(self.timestamp)

Build_Timestamp_impl(arg) ==
    arg.ty = "Timestamp" \/ (arg.ty = "TimestampBuilder" /\ arg.data = <<Set>>)

Build_Timestamp(arg) ==
    IF arg.ty = "Timestamp" THEN Into_build(arg) ELSE TimestampBuilder_build(arg)

TimestampValues == {<<605, 0>>}

TimestampStrings ==
    {"1970-01-01T00:10:05Z", "1970-01-01T00:02:05.000000011Z", "2018-03"}

TimestampArgs ==
    LET fresh == TimestampBuilder_default(<<Unset>>)
    IN  {Timestamp(p[1], p[2]) : p \in TimestampValues} \cup {fresh} \cup
        {TimestampBuilder_seconds_nanos(fresh, p[1], p[2]) : p \in TimestampValues}

(***************************************************************************)
(* Age                                                                     *)
(***************************************************************************)
Age(iso8601duration) == [ty |-> "Age", iso8601duration |-> iso8601duration]

AgeBuilder_default(data) ==
    [ty |-> "AgeBuilder", iso8601duration |-> None, data |-> data]

AgeBuilder_iso8601duration(self, iso8601duration) ==
    [ty |-> "AgeBuilder", iso8601duration |-> Some(iso8601duration), data |-> <<Set>>]

AgeBuilder_build(self) ==
    IF self.iso8601duration = None THEN Panic
    ELSE [ty |-> "Age", iso8601duration |-> expect(self.iso8601duration)]

Build_Age_impl(arg) == arg.ty = "Age" \/ (arg.ty = "AgeBuilder" /\ arg.data = <<Set>>)

Build_Age(arg) == IF arg.ty = "Age" THEN Into_build(arg) ELSE AgeBuilder_build(arg)

Durations == {"P1Y2D", "P3Y4M"}

AgeArgs ==
    LET fresh == AgeBuilder_default(<<Unset>>)
    IN  {Age(d) : d \in Durations} \cup {fresh} \cup
        {AgeBuilder_iso8601duration(fresh, d) : d \in Durations}

(***************************************************************************)
(* GestationalAge                                                          *)
(***************************************************************************)
GestationalAge(weeks, days) == [ty |-> "GestationalAge", weeks |-> weeks, days |-> days]

GestationalAgeBuilder_default(data) ==
    [ty |-> "GestationalAgeBuilder", weeks |-> None, days |-> None, data |-> data]

GestationalAgeBuilder_weeks(self, weeks) ==
    [ty |-> "GestationalAgeBuilder", weeks |-> Some(weeks), days |-> self.days,
     data |-> <<Set>>]

GestationalAgeBuilder_days(self, days) == [self EXCEPT !.days = Some(days)]

\* build that counts the days of an untouched builder from one.
GestationalAgeBuilder_build_days_from_one(self) ==
    IF self.weeks = None THEN Panic
    ELSE [ty |-> "GestationalAge", weeks |-> expect(self.weeks),
          days |-> unwrap_or(self.days, 1)]

GestationalAgeBuilder_build(self) ==
    IF self.weeks = None THEN Panic
    ELSE [ty |-> "GestationalAge", weeks |-> expect(self.weeks),
          days |-> unwrap_or(self.days, 0)]

Build_GestationalAge_impl(arg) ==
    arg.ty = "GestationalAge" \/ (arg.ty = "GestationalAgeBuilder" /\ arg.data = <<Set>>)

Build_GestationalAge(arg) ==
    IF arg.ty = "GestationalAge" THEN Into_build(arg) ELSE GestationalAgeBuilder_build(arg)

Weeks == {25}
Days == {0, 5}

GestationalAgeArgs ==
    LET fresh == GestationalAgeBuilder_default(<<Unset>>)
        dayed == {fresh} \cup {GestationalAgeBuilder_days(fresh, d) : d \in Days}
    IN  {GestationalAge(w, d) : w \in Weeks, d \in Days} \cup dayed \cup
        {GestationalAgeBuilder_weeks(g, w) : g \in dayed, w \in Weeks}

(***************************************************************************)
(* TimeElement: the variant holder                                         *)
(***************************************************************************)
\* enum Element: one tag and the payload of that alternative.
Element(variant, value) == [ty |-> "Element", variant |-> variant, value |-> value]

TimeElement(element) == [ty |-> "TimeElement", element |-> element]

TimeElementBuilder_default(data) ==
    [ty |-> "TimeElementBuilder", element |-> None, data |-> data]

TimeElementBuilder_gestational_age(self, gestational_age) ==
    unwind(Build_GestationalAge(gestational_age),
        [ty |-> "TimeElementBuilder",
         element |-> Some(Element("GestationalAge", Build_GestationalAge(gestational_age))),
         data |-> <<Set>>])

\* gestational_age_weeks with a slip in the struct literal: element carried over.
TimeElementBuilder_gestational_age_weeks_slip(self, weeks) ==
    [ty |-> "TimeElementBuilder", element |-> self.element, data |-> <<Set>>]

TimeElementBuilder_gestational_age_weeks(self, weeks) ==
    [ty |-> "TimeElementBuilder",
     element |-> Some(Element("GestationalAge", GestationalAge(weeks, 0))),
     data |-> <<Set>>]

TimeElementBuilder_gestational_age_weeks_days(self, weeks, days) ==
    [ty |-> "TimeElementBuilder",
     element |-> Some(Element("GestationalAge", GestationalAge(weeks, days))),
     data |-> <<Set>>]

\* age as a get_or_insert: an element already selected is kept.
TimeElementBuilder_age_get_or_insert(self, age) ==
    unwind(Build_Age(age),
        [ty |-> "TimeElementBuilder",
         element |-> IF self.element = None THEN Some(Element("Age", Build_Age(age)))
                                            ELSE self.element,
         data |-> <<Set>>])

TimeElementBuilder_age(self, age) ==
    unwind(Build_Age(age),
        [ty |-> "TimeElementBuilder",
         element |-> Some(Element("Age", Build_Age(age))),
         data |-> <<Set>>])

TimeElementBuilder_age_iso8601duration(self, iso8601duration) ==
    [ty |-> "TimeElementBuilder",
     element |-> Some(Element("Age", Age(iso8601duration))),
     data |-> <<Set>>]

TimeElementBuilder_ontology_class(self, o) ==
    unwind(Build_OntologyClass(o),
        [ty |-> "TimeElementBuilder",
         element |-> Some(Element("OntologyClass", Build_OntologyClass(o))),
         data |-> <<Set>>])

TimeElementBuilder_timestamp(self, ts) ==
    unwind(Build_Timestamp(ts),
        [ty |-> "TimeElementBuilder",
         element |-> Some(Element("Timestamp", Build_Timestamp(ts))),
         data |-> <<Set>>])

TimeElementBuilder_build(self) ==
    IF self.element = None THEN Panic
    ELSE TimeElement(Some(expect(self.element)))

Build_TimeElement_impl(arg) ==
    arg.ty = "TimeElement" \/ (arg.ty = "TimeElementBuilder" /\ arg.data = <<Set>>)

Build_TimeElement(arg) ==
    IF arg.ty = "TimeElement" THEN Into_build(arg) ELSE TimeElementBuilder_build(arg)

TimeElementArgs ==
    LET fresh == TimeElementBuilder_default(<<Unset>>)
    IN  {TimeElement(Some(Element("Age", Age("P3Y4M")))),
         fresh,
         TimeElementBuilder_age_iso8601duration(fresh, "P3Y4M")}

(***************************************************************************)
(* VitalStatus                                                             *)
(***************************************************************************)
Status == {"UNKNOWN_STATUS", "ALIVE", "DECEASED"}

\* Status -> i32, the field type of the finished record.
Status_into(status) ==
    CASE status = "UNKNOWN_STATUS" -> 0
      [] status = "ALIVE" -> 1
      [] status = "DECEASED" -> 2

VitalStatusBuilder_default(data) ==
    [ty |-> "VitalStatusBuilder", status |-> None, time_of_death |-> None,
     cause_of_death |-> None, survival_time_in_days |-> None, data |-> data]

\* status written with ..Default::default() for the other fields.
VitalStatusBuilder_status_rest_default(self, status) ==
    [ty |-> "VitalStatusBuilder", status |-> Some(status),
     time_of_death |-> None, cause_of_death |-> None,
     survival_time_in_days |-> None, data |-> <<Set>>]

VitalStatusBuilder_status(self, status) ==
    [ty |-> "VitalStatusBuilder", status |-> Some(status),
     time_of_death |-> self.time_of_death, cause_of_death |-> self.cause_of_death,
     survival_time_in_days |-> self.survival_time_in_days, data |-> <<Set>>]

VitalStatusBuilder_alive(self) == VitalStatusBuilder_status(self, "ALIVE")

VitalStatusBuilder_deceased(self) == VitalStatusBuilder_status(self, "DECEASED")

VitalStatusBuilder_time_of_death(self, time_of_death) ==
    [self EXCEPT !.time_of_death = Some(Into_build(time_of_death))]

VitalStatusBuilder_time_of_death_at_age(self, age) ==
    [self EXCEPT !.time_of_death = Some(TimeElement(Some(Element("Age", Into_build(age)))))]

VitalStatusBuilder_time_of_death_at_gestational_age(self, gestational_age) ==
    [self EXCEPT !.time_of_death =
        Some(TimeElement(Some(Element("GestationalAge", Into_build(gestational_age)))))]

VitalStatusBuilder_cause_of_death(self, cause_of_death) ==
    [self EXCEPT !.cause_of_death = Some(Into_build(cause_of_death))]

VitalStatusBuilder_survival_time_in_days(self, survival_time_in_days) ==
    [self EXCEPT !.survival_time_in_days = Some(survival_time_in_days)]

VitalStatus(status, time_of_death, cause_of_death, survival_time_in_days) ==
    [ty |-> "VitalStatus", status |-> status, time_of_death |-> time_of_death,
     cause_of_death |-> cause_of_death, survival_time_in_days |-> survival_time_in_days]

VitalStatusBuilder_build(self) ==
    IF self.status = None THEN Panic
    ELSE VitalStatus(Status_into(expect(self.status)), self.time_of_death,
                     self.cause_of_death, unwrap_or(self.survival_time_in_days, 0))

Build_VitalStatus_impl(arg) ==
    arg.ty = "VitalStatus" \/ (arg.ty = "VitalStatusBuilder" /\ arg.data = <<Set>>)

Build_VitalStatus(arg) ==
    IF arg.ty = "VitalStatus" THEN Into_build(arg) ELSE VitalStatusBuilder_build(arg)

SurvivalDays == {0, 30}

VitalStatusArgs ==
    LET fresh == VitalStatusBuilder_default(<<Unset>>)
        te == TimeElement(Some(Element("Age", Age("P3Y4M"))))
    IN  {VitalStatus(1, None, None, 0), VitalStatus(2, Some(te), None, 0),
         fresh, VitalStatusBuilder_time_of_death(fresh, te),
         VitalStatusBuilder_alive(fresh),
         VitalStatusBuilder_deceased(VitalStatusBuilder_time_of_death(fresh, te))}

(***************************************************************************)
(* Resource                                                                *)
(***************************************************************************)
Resource(id, name, url, version, namespace_prefix, iri_prefix) ==
    [ty |-> "Resource", id |-> id, name |-> name, url |-> url, version |-> version,
     namespace_prefix |-> namespace_prefix, iri_prefix |-> iri_prefix]

\* data = <<T, U, V, X, Y, Z>>: the markers of id, name, namespace_prefix,
\* url, version and iri_prefix.
ResourceBuilder_default(data) ==
    [ty |-> "ResourceBuilder", id |-> None, name |-> None, namespace_prefix |-> None,
     url |-> None, version |-> None, iri_prefix |-> None, data |-> data]

ResourceBuilder_id(self, id) ==
    [ty |-> "ResourceBuilder", id |-> Some(id), name |-> self.name,
     namespace_prefix |-> self.namespace_prefix, url |-> self.url,
     version |-> self.version, iri_prefix |-> self.iri_prefix,
     data |-> [self.data EXCEPT ![1] = Set]]

ResourceBuilder_name(self, name) ==
    [ty |-> "ResourceBuilder", id |-> self.id, name |-> Some(name),
     namespace_prefix |-> self.namespace_prefix, url |-> self.url,
     version |-> self.version, iri_prefix |-> self.iri_prefix,
     data |-> [self.data EXCEPT ![2] = Set]]

ResourceBuilder_namespace_prefix(self, namespace_prefix) ==
    [ty |-> "ResourceBuilder", id |-> self.id, name |-> self.name,
     namespace_prefix |-> Some(namespace_prefix), url |-> self.url,
     version |-> self.version, iri_prefix |-> self.iri_prefix,
     data |-> [self.data EXCEPT ![3] = Set]]

\* url with a slip in the struct literal: version taken from self.url.
ResourceBuilder_url_slip(self, url) ==
    [ty |-> "ResourceBuilder", id |-> self.id, name |-> self.name,
     namespace_prefix |-> self.namespace_prefix, url |-> Some(url),
     version |-> self.url, iri_prefix |-> self.iri_prefix,
     data |-> [self.data EXCEPT ![4] = Set]]

ResourceBuilder_url(self, url) ==
    [ty |-> "ResourceBuilder", id |-> self.id, name |-> self.name,
     namespace_prefix |-> self.namespace_prefix, url |-> Some(url),
     version |-> self.version, iri_prefix |-> self.iri_prefix,
     data |-> [self.data EXCEPT ![4] = Set]]

ResourceBuilder_version(self, version) ==
    [ty |-> "ResourceBuilder", id |-> self.id, name |-> self.name,
     namespace_prefix |-> self.namespace_prefix, url |-> self.url,
     version |-> Some(version), iri_prefix |-> self.iri_prefix,
     data |-> [self.data EXCEPT ![5] = Set]]

ResourceBuilder_iri_prefix(self, iri_prefix) ==
    [ty |-> "ResourceBuilder", id |-> self.id, name |-> self.name,
     namespace_prefix |-> self.namespace_prefix, url |-> self.url,
     version |-> self.version, iri_prefix |-> Some(iri_prefix),
     data |-> [self.data EXCEPT ![6] = Set]]

\* The presets hpo .. pmid: the literals each one fills in.
ResourcePresets ==
    [hpo |-> [id |-> "hp", name |-> "human phenotype ontology",
              namespace_prefix |-> "HP",
              url |-> "https://purl.obolibrary.org/obo/hp.owl",
              iri_prefix |-> "https://purl.obolibrary.org/obo/HP_"],
     geno |-> [id |-> "geno", name |-> "genotype ontology",
               namespace_prefix |-> "GENO",
               url |-> "https://purl.obolibrary.org/obo/geno.owl",
               iri_prefix |-> "https://purl.obolibrary.org/obo/GENO_"],
     ncit |-> [id |-> "ncit", name |-> "NCI Thesaurus",
               namespace_prefix |-> "NCIT",
               url |-> "https://purl.obolibrary.org/obo/geno.owl",
               iri_prefix |-> "https://purl.obolibrary.org/obo/NCIT_"],
     mondo |-> [id |-> "mondo", name |-> "Mondo Disease Ontology",
                namespace_prefix |-> "MONDO",
                url |-> "https://purl.obolibrary.org/obo/mondo.obo",
                iri_prefix |-> "https://purl.obolibrary.org/obo/MONDO_"],
     uberon |-> [id |-> "uberon", name |-> "Uber-anatomy ontology",
                 namespace_prefix |-> "UBERON",
                 url |-> "https://purl.obolibrary.org/obo/uberon.owl",
                 iri_prefix |-> "https://purl.obolibrary.org/obo/UBERON_"],
     ncbi_taxon |-> [id |-> "ncbitaxon", name |-> "NCBI organismal classification",
                     namespace_prefix |-> "NCBITaxon",
                     url |-> "https://purl.obolibrary.org/obo/ncbitaxon.owl",
                     iri_prefix |-> "https://purl.obolibrary.org/obo/NCBITaxon_"],
     so |-> [id |-> "so", name |-> "Sequence types and features ontology",
             namespace_prefix |-> "SO",
             url |-> "https://purl.obolibrary.org/obo/so.owl",
             iri_prefix |-> "https://purl.obolibrary.org/obo/SO_"],
     ucum |-> [id |-> "ucum", name |-> "Unified Code for Units of Measure",
               namespace_prefix |-> "UCUM",
               url |-> "https://ucum.org",
               iri_prefix |-> "https://units-of-measurement.org/"],
     uo |-> [id |-> "uo", name |-> "Units of measurement ontology",
             namespace_prefix |-> "UO",
             url |-> "https://purl.obolibrary.org/obo/uo.owl",
             iri_prefix |-> "https://purl.obolibrary.org/obo/UO_"],
     loinc |-> [id |-> "loinc", name |-> "Logical Observation Identifiers Names and Codes",
                namespace_prefix |-> "LOINC",
                url |-> "https://loinc.org",
                iri_prefix |-> "https://loinc.org/"],
     omim |-> [id |-> "omim",
               name |-> "An Online Catalog of Human Genes and Genetic Disorders",
               namespace_prefix |-> "OMIM",
               url |-> "https://www.omim.org",
               iri_prefix |-> "https://www.omim.org/entry/"],
     hgnc |-> [id |-> "hgnc", name |-> "HUGO Gene Nomenclature Committee",
               namespace_prefix |-> "HGNC",
               url |-> "https://www.genenames.org",
               iri_prefix |->
                   "https://www.genenames.org/data/gene-symbol-report/#!/hgnc_id/"],
     pmid |-> [id |-> "pmid", name |-> "PubMed",
               namespace_prefix |-> "PMID",
               url |-> "https://pubmed.ncbi.nlm.nih.gov",
               iri_prefix |-> "https://pubmed.ncbi.nlm.nih.gov/"]]

\* pmid() leaving the version out of the struct literal.
ResourceBuilder_preset_pmid_without_version(self, preset, version) ==
    [ty |-> "ResourceBuilder",
     id |-> Some(ResourcePresets[preset].id),
     name |-> Some(ResourcePresets[preset].name),
     namespace_prefix |-> Some(ResourcePresets[preset].namespace_prefix),
     url |-> Some(ResourcePresets[preset].url),
     version |-> IF preset = "pmid" THEN None ELSE Some(version),
     iri_prefix |-> Some(ResourcePresets[preset].iri_prefix),
     data |-> <<Set, Set, Set, Set, Set, Set>>]

\* A preset that fills only what the builder does not hold yet.
ResourceBuilder_preset_fills_gaps(self, preset, version) ==
    LET fill(f, v) == IF self[f] = None THEN Some(v) ELSE self[f]
    IN  [ty |-> "ResourceBuilder",
         id |-> fill("id", ResourcePresets[preset].id),
         name |-> fill("name", ResourcePresets[preset].name),
         namespace_prefix |-> fill("namespace_prefix", ResourcePresets[preset].namespace_prefix),
         url |-> fill("url", ResourcePresets[preset].url),
         version |-> fill("version", IF preset = "pmid" THEN "" ELSE version),
         iri_prefix |-> fill("iri_prefix", ResourcePresets[preset].iri_prefix),
         data |-> <<Set, Set, Set, Set, Set, Set>>]

\* hpo(version) .. hgnc(version); pmid() takes no version and fills in "".
ResourceBuilder_preset(self, preset, version) ==
    [ty |-> "ResourceBuilder",
     id |-> Some(ResourcePresets[preset].id),
     name |-> Some(ResourcePresets[preset].name),
     namespace_prefix |-> Some(ResourcePresets[preset].namespace_prefix),
     url |-> Some(ResourcePresets[preset].url),
     version |-> Some(IF preset = "pmid" THEN "" ELSE version),
     iri_prefix |-> Some(ResourcePresets[preset].iri_prefix),
     data |-> <<Set, Set, Set, Set, Set, Set>>]

\* build with url and version in each other's place in the struct literal.
ResourceBuilder_build_url_version_swapped(self) ==
    IF \/ self.id = None \/ self.name = None \/ self.url = None
       \/ self.version = None \/ self.namespace_prefix = None \/ self.iri_prefix = None
    THEN Panic
    ELSE Resource(expect(self.id), expect(self.name), expect(self.version),
                  expect(self.url), expect(self.namespace_prefix),
                  expect(self.iri_prefix))

ResourceBuilder_build(self) ==
    IF \/ self.id = None \/ self.name = None \/ self.url = None
       \/ self.version = None \/ self.namespace_prefix = None \/ self.iri_prefix = None
    THEN Panic
    ELSE Resource(expect(self.id), expect(self.name), expect(self.url),
                  expect(self.version), expect(self.namespace_prefix),
                  expect(self.iri_prefix))

Build_Resource_impl(arg) ==
    arg.ty = "Resource" \/
    (arg.ty = "ResourceBuilder" /\ arg.data = <<Set, Set, Set, Set, Set, Set>>)

Build_Resource(arg) ==
    IF arg.ty = "Resource" THEN Into_build(arg) ELSE ResourceBuilder_build(arg)

\* The values the call chains pass to the six setters and to the presets.
ResourceValues ==
    [id |-> {"id-1", "id-2"}, name |-> {"name-1", "name-2"},
     namespace_prefix |-> {"NS1", "NS2"}, url |-> {"url-1", "url-2"},
     version |-> {"2018-03-08", "2018-03-19"}, iri_prefix |-> {"iri-1", "iri-2"}]

ResourceArgs ==
    LET fresh == ResourceBuilder_default(<<Unset, Unset, Unset, Unset, Unset, Unset>>)
    IN  {ResourceBuilder_build(ResourceBuilder_preset(fresh, "hpo", "2018-03-08")),
         ResourceBuilder_preset(fresh, "hpo", "2018-03-08"),
         ResourceBuilder_preset(fresh, "geno", "2018-03-19"),
         fresh,
         ResourceBuilder_name(ResourceBuilder_id(fresh, "id-1"), "name-1")}

(***************************************************************************)
(* Update                                                                  *)
(***************************************************************************)
Update(timestamp, updated_by, comment) ==
    [ty |-> "Update", timestamp |-> timestamp, updated_by |-> updated_by,
     comment |-> comment]

UpdateBuilder_default(data) ==
    [ty |-> "UpdateBuilder", timestamp |-> None, updated_by |-> None,
     comment |-> None, data |-> data]

UpdateBuilder_timestamp(self, timestamp) ==
    unwind(Build_Timestamp(timestamp),
        [ty |-> "UpdateBuilder", timestamp |-> Some(Build_Timestamp(timestamp)),
         updated_by |-> self.updated_by, comment |-> self.comment, data |-> <<Set>>])

UpdateBuilder_updated_by(self, updated_by) ==
    [ty |-> "UpdateBuilder", timestamp |-> self.timestamp,
     updated_by |-> Some(updated_by), comment |-> self.comment, data |-> self.data]

UpdateBuilder_comment(self, comment) ==
    [ty |-> "UpdateBuilder", timestamp |-> self.timestamp,
     updated_by |-> self.updated_by, comment |-> Some(comment), data |-> self.data]

\* build that leaves the timestamp to ..Default::default().
UpdateBuilder_build_timestamp_default(self) ==
    Update(None, unwrap_or(self.updated_by, ""), unwrap_or(self.comment, ""))

UpdateBuilder_build(self) ==
    Update(self.timestamp, unwrap_or(self.updated_by, ""), unwrap_or(self.comment, ""))

Build_Update_impl(arg) ==
    arg.ty = "Update" \/ (arg.ty = "UpdateBuilder" /\ arg.data = <<Set>>)

Build_Update(arg) ==
    IF arg.ty = "Update" THEN Into_build(arg) ELSE UpdateBuilder_build(arg)

Names == {"Peter R.", ""}
Comments == {"comment", ""}

UpdateArgs ==
    LET fresh == UpdateBuilder_default(<<Unset>>)
    IN  {Update(Some(Timestamp(605, 0)), "Peter R.", ""),
         fresh, UpdateBuilder_updated_by(fresh, "Peter R."),
         UpdateBuilder_updated_by(UpdateBuilder_timestamp(fresh, Timestamp(605, 0)),
                                  "Peter R.")}

(***************************************************************************)
(* ExternalReference: a builder without mandatory fields                   *)
(***************************************************************************)
ExternalReference(id, reference, description) ==
    [ty |-> "ExternalReference", id |-> id, reference |-> reference,
     description |-> description]

ExternalReferenceBuilder_default(data) ==
    [ty |-> "ExternalReferenceBuilder", id |-> None, reference |-> None,
     description |-> None, data |-> data]

ExternalReferenceBuilder_id(self, id) == [self EXCEPT !.id = Some(id)]

ExternalReferenceBuilder_reference(self, reference) ==
    [self EXCEPT !.reference = Some(reference)]

ExternalReferenceBuilder_description(self, description) ==
    [self EXCEPT !.description = Some(description)]

ExternalReferenceBuilder_build(self) ==
    ExternalReference(unwrap_or(self.id, ""), unwrap_or(self.reference, ""),
                      unwrap_or(self.description, ""))

Build_ExternalReference_impl(arg) ==
    arg.ty = "ExternalReference" \/ arg.ty = "ExternalReferenceBuilder"

Build_ExternalReference(arg) ==
    IF arg.ty = "ExternalReference" THEN Into_build(arg)
    ELSE ExternalReferenceBuilder_build(arg)

ReferenceStrings == {"PMID:30808312", ""}

ExternalReferenceArgs ==
    LET fresh == ExternalReferenceBuilder_default(<<>>)
    IN  {ExternalReference("PMID:30808312", "", ""),
         ExternalReferenceBuilder_id(fresh, "PMID:30808312")}

(***************************************************************************)
(* MetaData                                                                *)
(***************************************************************************)
\* data = <<T, U, V>>: the markers of created, created_by and
\* phenopacket_schema_version.
\* A Default that seeds the schema version.
MetaDataBuilder_default_v2(data) ==
    [ty |-> "MetaDataBuilder", created |-> None, created_by |-> None,
     submitted_by |-> None, resources |-> <<>>, updates |-> <<>>,
     phenopacket_schema_version |-> Some("2.0.0"), external_references |-> <<>>,
     data |-> data]

MetaDataBuilder_default(data) ==
    [ty |-> "MetaDataBuilder", created |-> None, created_by |-> None,
     submitted_by |-> None, resources |-> <<>>, updates |-> <<>>,
     phenopacket_schema_version |-> None, external_references |-> <<>>,
     data |-> data]

MetaDataBuilder_created(self, created) ==
    unwind(Build_Timestamp(created),
        [ty |-> "MetaDataBuilder", created |-> Some(Build_Timestamp(created)),
         created_by |-> self.created_by, submitted_by |-> self.submitted_by,
         resources |-> self.resources, updates |-> self.updates,
         phenopacket_schema_version |-> self.phenopacket_schema_version,
         external_references |-> self.external_references,
         data |-> [self.data EXCEPT ![1] = Set]])

\* created_by with a slip in the struct literal: created not carried over.
MetaDataBuilder_created_by_slip(self, created_by) ==
    [ty |-> "MetaDataBuilder", created |-> None,
     created_by |-> Some(created_by), submitted_by |-> self.submitted_by,
     resources |-> self.resources, updates |-> self.updates,
     phenopacket_schema_version |-> self.phenopacket_schema_version,
     external_references |-> self.external_references,
     data |-> [self.data EXCEPT ![2] = Set]]

MetaDataBuilder_created_by(self, created_by) ==
    [ty |-> "MetaDataBuilder", created |-> self.created,
     created_by |-> Some(created_by), submitted_by |-> self.submitted_by,
     resources |-> self.resources, updates |-> self.updates,
     phenopacket_schema_version |-> self.phenopacket_schema_version,
     external_references |-> self.external_references,
     data |-> [self.data EXCEPT ![2] = Set]]

MetaDataBuilder_phenopacket_schema_version(self, version) ==
    [ty |-> "MetaDataBuilder", created |-> self.created,
     created_by |-> self.created_by, submitted_by |-> self.submitted_by,
     resources |-> self.resources, updates |-> self.updates,
     phenopacket_schema_version |-> Some(version),
     external_references |-> self.external_references,
     data |-> [self.data EXCEPT ![3] = Set]]

MetaDataBuilder_v2(self) == MetaDataBuilder_phenopacket_schema_version(self, "2.0.0")

MetaDataBuilder_v2_0_2(self) == MetaDataBuilder_phenopacket_schema_version(self, "2.0.2")

MetaDataBuilder_submitted_by(self, submitted_by) ==
    [self EXCEPT !.submitted_by = Some(submitted_by)]

\* iter.map(f) of a sequence, and a panic in any of its calls.
map(f(_), items) == [i \in 1..Len(items) |-> f(items[i])]
unwind_all(vs, r) == IF \E i \in 1..Len(vs) : vs[i] = Panic THEN Panic ELSE r

MetaDataBuilder_add_resource(self, resource) ==
    unwind(Build_Resource(resource),
        [self EXCEPT !.resources = Append(@, Build_Resource(resource))])

\* extend_resources putting the new elements in front of the old ones.
MetaDataBuilder_extend_resources_prepend(self, resources) ==
    unwind_all(map(Build_Resource, resources),
        [self EXCEPT !.resources = map(Build_Resource, resources) \o @])

MetaDataBuilder_extend_resources(self, resources) ==
    unwind_all(map(Build_Resource, resources),
        [self EXCEPT !.resources = @ \o map(Build_Resource, resources)])

MetaDataBuilder_clear_resources(self) == [self EXCEPT !.resources = <<>>]

MetaDataBuilder_add_update(self, update) ==
    unwind(Build_Update(update),
        [self EXCEPT !.updates = Append(@, Build_Update(update))])

MetaDataBuilder_extend_updates(self, updates) ==
    unwind_all(map(Build_Update, updates),
        [self EXCEPT !.updates = @ \o map(Build_Update, updates)])

MetaDataBuilder_clear_updates(self) == [self EXCEPT !.updates = <<>>]

MetaDataBuilder_add_external_reference(self, external_reference) ==
    unwind(Build_ExternalReference(external_reference),
        [self EXCEPT !.external_references =
            Append(@, Build_ExternalReference(external_reference))])

MetaDataBuilder_extend_external_references(self, external_references) ==
    unwind_all(map(Build_ExternalReference, external_references),
        [self EXCEPT !.external_references =
            @ \o map(Build_ExternalReference, external_references)])

MetaDataBuilder_clear_external_references(self) ==
    [self EXCEPT !.external_references = <<>>]

\* build that falls back on created_by where submitted_by was not written.
MetaDataBuilder_build_submitted_by_creator(self) ==
    IF self.created_by = None \/ self.phenopacket_schema_version = None THEN Panic
    ELSE [ty |-> "MetaData", created |-> self.created,
          created_by |-> expect(self.created_by),
          submitted_by |-> unwrap_or(self.submitted_by, expect(self.created_by)),
          resources |-> self.resources, updates |-> self.updates,
          phenopacket_schema_version |-> expect(self.phenopacket_schema_version),
          external_references |-> self.external_references]

MetaDataBuilder_build(self) ==
    IF self.created_by = None \/ self.phenopacket_schema_version = None THEN Panic
    ELSE [ty |-> "MetaData", created |-> self.created,
          created_by |-> expect(self.created_by),
          submitted_by |-> unwrap_or(self.submitted_by, ""),
          resources |-> self.resources, updates |-> self.updates,
          phenopacket_schema_version |-> expect(self.phenopacket_schema_version),
          external_references |-> self.external_references]

\* A Build<MetaData> for MetaDataBuilder<T, U, V>: the impl without its markers.
Build_MetaData_impl_any_marker(arg) == arg.ty \in {"MetaData", "MetaDataBuilder"}

Build_MetaData_impl(arg) ==
    arg.ty = "MetaData" \/ (arg.ty = "MetaDataBuilder" /\ arg.data = <<Set, Set, Set>>)

Build_MetaData(arg) ==
    IF arg.ty = "MetaData" THEN Into_build(arg) ELSE MetaDataBuilder_build(arg)

SchemaVersions == {"2.0.0", "2.1.0"}

MetaDataArgs ==
    LET fresh == MetaDataBuilder_default(<<Unset, Unset, Unset>>)
        full == MetaDataBuilder_v2(MetaDataBuilder_created_by(
                    MetaDataBuilder_created(fresh, Timestamp(605, 0)), "Peter R."))
    IN  {MetaDataBuilder_build(full), full,
         MetaDataBuilder_add_resource(full,
             ResourceBuilder_preset(
                 ResourceBuilder_default(<<Unset, Unset, Unset, Unset, Unset, Unset>>),
                 "hpo", "2018-03-08")),
         fresh, MetaDataBuilder_v2(MetaDataBuilder_created_by(fresh, "Peter R."))}

(***************************************************************************)
(* Individual                                                              *)
(***************************************************************************)
Sex == {"UNKNOWN_SEX", "FEMALE", "MALE", "OTHER_SEX"}

KaryotypicSex ==
    {"UNKNOWN_KARYOTYPE", "XX", "XY", "XO", "XXY", "XXX", "XXYY", "XXXY", "XXXX",
     "XYY", "OTHER_KARYOTYPE"}

\* Sex -> i32 and KaryotypicSex -> i32, the field types of the finished record.
Sex_into(sex) ==
    CASE sex = "UNKNOWN_SEX" -> 0 [] sex = "FEMALE" -> 1
      [] sex = "MALE" -> 2 [] sex = "OTHER_SEX" -> 3

KaryotypicSex_into(karyotypic_sex) ==
    CASE karyotypic_sex = "UNKNOWN_KARYOTYPE" -> 0 [] karyotypic_sex = "XX" -> 1
      [] karyotypic_sex = "XY" -> 2 [] karyotypic_sex = "XO" -> 3
      [] karyotypic_sex = "XXY" -> 4 [] karyotypic_sex = "XXX" -> 5
      [] karyotypic_sex = "XXYY" -> 6 [] karyotypic_sex = "XXXY" -> 7
      [] karyotypic_sex = "XXXX" -> 8 [] karyotypic_sex = "XYY" -> 9
      [] karyotypic_sex = "OTHER_KARYOTYPE" -> 10

IndividualBuilder_default(data) ==
    [ty |-> "IndividualBuilder", id |-> None, alternate_ids |-> <<>>,
     date_of_birth |-> None, time_at_last_encounter |-> None, vital_status |-> None,
     sex |-> "UNKNOWN_SEX", karyotypic_sex |-> "UNKNOWN_KARYOTYPE",
     gender |-> None, taxonomy |-> None, data |-> data]

\* add_alternate_id written as a struct literal that leaves the id out.
IndividualBuilder_add_alternate_id_drops_id(self, id) ==
    [self EXCEPT !.alternate_ids = Append(@, id), !.id = None]

IndividualBuilder_add_alternate_id(self, id) ==
    [self EXCEPT !.alternate_ids = Append(@, id)]

IndividualBuilder_extend_alternate_ids(self, ids) ==
    [self EXCEPT !.alternate_ids = @ \o ids]

IndividualBuilder_clear_alternate_ids(self) == [self EXCEPT !.alternate_ids = <<>>]

IndividualBuilder_date_of_birth(self, date) ==
    unwind(Build_Timestamp(date),
        [self EXCEPT !.date_of_birth = Some(Build_Timestamp(date))])

IndividualBuilder_time_at_last_encounter(self, time_at_last_encounter) ==
    unwind(Build_TimeElement(time_at_last_encounter),
        [self EXCEPT !.time_at_last_encounter =
            Some(Build_TimeElement(time_at_last_encounter))])

IndividualBuilder_vital_status(self, vital_status) ==
    unwind(Build_VitalStatus(vital_status),
        [self EXCEPT !.vital_status = Some(Build_VitalStatus(vital_status))])

IndividualBuilder_deceased(self) ==
    LET vs == VitalStatusBuilder_build(
                  VitalStatusBuilder_deceased(VitalStatusBuilder_default(<<Unset>>)))
    IN  unwind(vs, [self EXCEPT !.vital_status = Some(vs)])

IndividualBuilder_deceased_at(self, time_of_death) ==
    LET vs == VitalStatusBuilder_build(
                  VitalStatusBuilder_time_of_death(
                      VitalStatusBuilder_deceased(VitalStatusBuilder_default(<<Unset>>)),
                      time_of_death))
    IN  unwind(vs, [self EXCEPT !.vital_status = Some(vs)])

\* alive() that goes on from the vital status written before.
IndividualBuilder_alive_keeps_rest(self) ==
    IF self.vital_status = None
    THEN [self EXCEPT !.vital_status = Some(VitalStatus(1, None, None, 0))]
    ELSE [self EXCEPT !.vital_status = Some([self.vital_status[1] EXCEPT !.status = 1])]

IndividualBuilder_alive(self) ==
    LET vs == VitalStatusBuilder_build(
                  VitalStatusBuilder_alive(VitalStatusBuilder_default(<<Unset>>)))
    IN  unwind(vs, [self EXCEPT !.vital_status = Some(vs)])

\* sex that keeps a value written before.
IndividualBuilder_sex_first_write(self, sex) ==
    IF self.sex = "UNKNOWN_SEX" THEN [self EXCEPT !.sex = sex] ELSE self

IndividualBuilder_sex(self, sex) == [self EXCEPT !.sex = sex]

IndividualBuilder_male(self) == IndividualBuilder_sex(self, "MALE")

IndividualBuilder_female(self) == IndividualBuilder_sex(self, "FEMALE")

IndividualBuilder_other_sex(self) == IndividualBuilder_sex(self, "OTHER_SEX")

IndividualBuilder_karyotypic_sex(self, karyotypic_sex) ==
    [self EXCEPT !.karyotypic_sex = karyotypic_sex]

\* karyotypic_sex_xx .. karyotypic_sex_other: the variant each shortcut passes
\* to karyotypic_sex.
KaryotypicSexShortcuts ==
    [karyotypic_sex_xx |-> "XX", karyotypic_sex_xy |-> "XY",
     karyotypic_sex_xo |-> "XO", karyotypic_sex_xxy |-> "XXY",
     karyotypic_sex_xxyy |-> "XXYY", karyotypic_sex_xxxy |-> "XXXY",
     karyotypic_sex_xxxx |-> "XXXX", karyotypic_sex_xyy |-> "XYY",
     karyotypic_sex_other |-> "OTHER_KARYOTYPE"]

IndividualBuilder_karyotypic_sex_shortcut(self, method) ==
    IndividualBuilder_karyotypic_sex(self, KaryotypicSexShortcuts[method])

IndividualBuilder_gender(self, gender) ==
    unwind(Build_OntologyClass(gender),
        [self EXCEPT !.gender = Some(Build_OntologyClass(gender))])

IndividualBuilder_taxonomy(self, taxonomy) ==
    unwind(Build_OntologyClass(taxonomy),
        [self EXCEPT !.taxonomy = Some(Build_OntologyClass(taxonomy))])

\* homo_sapiens with the label capitalised.
IndividualBuilder_homo_sapiens_capitalised(self) ==
    IndividualBuilder_taxonomy(self,
        OntologyClassBuilder_id_label(OntologyClassBuilder_default(<<Unset>>),
                                      "NCBITaxon:9606", "Homo sapiens"))

IndividualBuilder_homo_sapiens(self) ==
    IndividualBuilder_taxonomy(self,
        OntologyClassBuilder_id_label(OntologyClassBuilder_default(<<Unset>>),
                                      "NCBITaxon:9606", "homo sapiens"))

IndividualBuilder_id(self, id) ==
    [ty |-> "IndividualBuilder", id |-> Some(id), alternate_ids |-> self.alternate_ids,
     date_of_birth |-> self.date_of_birth,
     time_at_last_encounter |-> self.time_at_last_encounter,
     vital_status |-> self.vital_status, sex |-> self.sex,
     karyotypic_sex |-> self.karyotypic_sex, gender |-> self.gender,
     taxonomy |-> self.taxonomy, data |-> <<Set>>]

IndividualBuilder_build(self) ==
    IF self.id = None THEN Panic
    ELSE [ty |-> "Individual", id |-> expect(self.id),
          alternate_ids |-> self.alternate_ids, date_of_birth |-> self.date_of_birth,
          time_at_last_encounter |-> self.time_at_last_encounter,
          vital_status |-> self.vital_status, sex |-> Sex_into(self.sex),
          karyotypic_sex |-> KaryotypicSex_into(self.karyotypic_sex),
          gender |-> self.gender, taxonomy |-> self.taxonomy]

\* A Build<Individual> for IndividualBuilder<T>: the impl without its marker.
Build_Individual_impl_any_marker(arg) == arg.ty \in {"Individual", "IndividualBuilder"}

Build_Individual_impl(arg) ==
    arg.ty = "Individual" \/ (arg.ty = "IndividualBuilder" /\ arg.data = <<Set>>)

Build_Individual(arg) ==
    IF arg.ty = "Individual" THEN Into_build(arg) ELSE IndividualBuilder_build(arg)

IndividualIds == {"individual-id"}
AlternateIds == {"alternate-id"}

IndividualArgs ==
    LET fresh == IndividualBuilder_default(<<Unset>>)
        full == IndividualBuilder_male(IndividualBuilder_alive(
                    IndividualBuilder_id(fresh, "individual-id")))
    IN  {IndividualBuilder_build(full), full, fresh, IndividualBuilder_alive(fresh),
         IndividualBuilder_male(fresh)}

(***************************************************************************)
(* PhenotypicFeature                                                       *)
(***************************************************************************)
PhenotypicFeatureBuilder_default(data) ==
    [ty |-> "PhenotypicFeatureBuilder", description |-> None, type |-> None,
     excluded |-> FALSE, severity |-> None, modifiers |-> <<>>, onset |-> None,
     resolution |-> None, evidence |-> <<>>, data |-> data]

PhenotypicFeatureBuilder_type(self, type) ==
    unwind(Build_OntologyClass(type),
        [ty |-> "PhenotypicFeatureBuilder", description |-> self.description,
         type |-> Some(Build_OntologyClass(type)), excluded |-> self.excluded,
         severity |-> self.severity, modifiers |-> self.modifiers,
         onset |-> self.onset, resolution |-> self.resolution,
         evidence |-> self.evidence, data |-> <<Set>>])

PhenotypicFeatureBuilder_description(self, description) ==
    [self EXCEPT !.description = Some(Into_build(description))]

PhenotypicFeatureBuilder_observed(self) == [self EXCEPT !.excluded = FALSE]

PhenotypicFeatureBuilder_excluded(self) == [self EXCEPT !.excluded = TRUE]

PhenotypicFeatureBuilder_severity(self, severity) ==
    unwind(Build_OntologyClass(severity),
        [self EXCEPT !.severity = Some(Build_OntologyClass(severity))])

PhenotypicFeatureBuilder_add_modifier(self, modifier) ==
    unwind(Build_OntologyClass(modifier),
        [self EXCEPT !.modifiers = Append(@, Build_OntologyClass(modifier))])

PhenotypicFeatureBuilder_extend_modifiers(self, modifiers) ==
    unwind_all(map(Build_OntologyClass, modifiers),
        [self EXCEPT !.modifiers = @ \o map(Build_OntologyClass, modifiers)])

\* clear_modifiers that empties the evidence as well.
PhenotypicFeatureBuilder_clear_modifiers_and_evidence(self) ==
    [self EXCEPT !.modifiers = <<>>, !.evidence = <<>>]

PhenotypicFeatureBuilder_clear_modifiers(self) == [self EXCEPT !.modifiers = <<>>]

PhenotypicFeatureBuilder_onset(self, onset) ==
    unwind(Build_TimeElement(onset),
        [self EXCEPT !.onset = Some(Build_TimeElement(onset))])

PhenotypicFeatureBuilder_resolution(self, resolution) ==
    unwind(Build_TimeElement(resolution),
        [self EXCEPT !.resolution = Some(Build_TimeElement(resolution))])

PhenotypicFeatureBuilder_add_evidence(self, evidence) ==
    [self EXCEPT !.evidence = Append(@, Into_build(evidence))]

PhenotypicFeatureBuilder_extend_evidence(self, evidence) ==
    [self EXCEPT !.evidence = @ \o map(Into_build, evidence)]

PhenotypicFeatureBuilder_clear_evidence(self) == [self EXCEPT !.evidence = <<>>]

PhenotypicFeatureBuilder_build(self) ==
    [ty |-> "PhenotypicFeature", description |-> unwrap_or(self.description, ""),
     type |-> self.type, excluded |-> self.excluded, severity |-> self.severity,
     modifiers |-> self.modifiers, onset |-> self.onset,
     resolution |-> self.resolution, evidence |-> self.evidence]

Build_PhenotypicFeature_impl(arg) ==
    arg.ty = "PhenotypicFeature" \/
    (arg.ty = "PhenotypicFeatureBuilder" /\ arg.data = <<Set>>)

Build_PhenotypicFeature(arg) ==
    IF arg.ty = "PhenotypicFeature" THEN Into_build(arg)
    ELSE PhenotypicFeatureBuilder_build(arg)

Descriptions == {"description", ""}

\* Evidence has no builder: only an Evidence is a Build<Evidence>.
EvidenceArgs ==
    {[ty |-> "Evidence", evidence_code |-> Some(oc("ECO:0000033", "TAS")),
      reference |-> None]}

PhenotypicFeatureArgs ==
    LET fresh == PhenotypicFeatureBuilder_default(<<Unset>>)
        full == PhenotypicFeatureBuilder_type(fresh, oc("HP:0012469", "Infantile spasms"))
    IN  {PhenotypicFeatureBuilder_build(full), full, fresh,
         PhenotypicFeatureBuilder_excluded(fresh),
         PhenotypicFeatureBuilder_excluded(
             PhenotypicFeatureBuilder_type(fresh, oc("HP:0001250", "Seizure")))}

(***************************************************************************)
(* Phenopacket                                                             *)
(***************************************************************************)
\* data = <<T, U>>: the markers of id and meta_data.
PhenopacketBuilder_default(data) ==
    [ty |-> "PhenopacketBuilder", id |-> None, subject |-> None,
     phenotypic_features |-> <<>>, measurements |-> <<>>, biosamples |-> <<>>,
     interpretations |-> <<>>, diseases |-> <<>>, medical_actions |-> <<>>,
     files |-> <<>>, meta_data |-> None, data |-> data]

PhenopacketBuilder_id(self, id) ==
    [ty |-> "PhenopacketBuilder", id |-> Some(id), subject |-> self.subject,
     phenotypic_features |-> self.phenotypic_features,
     measurements |-> self.measurements, biosamples |-> self.biosamples,
     interpretations |-> self.interpretations, diseases |-> self.diseases,
     medical_actions |-> self.medical_actions, files |-> self.files,
     meta_data |-> self.meta_data, data |-> [self.data EXCEPT ![1] = Set]]

PhenopacketBuilder_meta_data(self, meta_data) ==
    unwind(Build_MetaData(meta_data),
        [ty |-> "PhenopacketBuilder", id |-> self.id, subject |-> self.subject,
         phenotypic_features |-> self.phenotypic_features,
         measurements |-> self.measurements, biosamples |-> self.biosamples,
         interpretations |-> self.interpretations, diseases |-> self.diseases,
         medical_actions |-> self.medical_actions, files |-> self.files,
         meta_data |-> Some(Build_MetaData(meta_data)),
         data |-> [self.data EXCEPT ![2] = Set]])

PhenopacketBuilder_subject(self, subject) ==
    unwind(Build_Individual(subject),
        [self EXCEPT !.subject = Some(Build_Individual(subject))])

PhenopacketBuilder_add_phenotypic_feature(self, phenotypic_feature) ==
    unwind(Build_PhenotypicFeature(phenotypic_feature),
        [self EXCEPT !.phenotypic_features =
            Append(@, Build_PhenotypicFeature(phenotypic_feature))])

PhenopacketBuilder_extend_phenotypic_features(self, phenotypic_features) ==
    unwind_all(map(Build_PhenotypicFeature, phenotypic_features),
        [self EXCEPT !.phenotypic_features =
            @ \o map(Build_PhenotypicFeature, phenotypic_features)])

PhenopacketBuilder_clear_phenotypic_features(self) ==
    [self EXCEPT !.phenotypic_features = <<>>]

PhenopacketBuilder_build(self) ==
    IF self.id = None THEN Panic
    ELSE [ty |-> "Phenopacket", id |-> expect(self.id), subject |-> self.subject,
          phenotypic_features |-> self.phenotypic_features,
          measurements |-> self.measurements, biosamples |-> self.biosamples,
          interpretations |-> self.interpretations, diseases |-> self.diseases,
          medical_actions |-> self.medical_actions, files |-> self.files,
          meta_data |-> self.meta_data]

PhenopacketIds == {"phenopacket-id", "phenopacket-2"}

(***************************************************************************)
(* The parameter types of the setters that take a record                   *)
(***************************************************************************)
\* A parameter `impl Build<R>` or `impl Into<R>`.
Build(R) == [trait |-> "Build", R |-> R]
Into(R) == [trait |-> "Into", R |-> R]

\* The types that implement Build<R>.  Evidence has no builder.
Build_impl(arg, R) ==
    CASE R = "OntologyClass" -> Build_OntologyClass_impl(arg)
      [] R = "Timestamp" -> Build_Timestamp_impl(arg)
      [] R = "Age" -> Build_Age_impl(arg)
      [] R = "GestationalAge" -> Build_GestationalAge_impl(arg)
      [] R = "TimeElement" -> Build_TimeElement_impl(arg)
      [] R = "VitalStatus" -> Build_VitalStatus_impl(arg)
      [] R = "Resource" -> Build_Resource_impl(arg)
      [] R = "Update" -> Build_Update_impl(arg)
      [] R = "ExternalReference" -> Build_ExternalReference_impl(arg)
      [] R = "MetaData" -> Build_MetaData_impl(arg)
      [] R = "Individual" -> Build_Individual_impl(arg)
      [] R = "PhenotypicFeature" -> Build_PhenotypicFeature_impl(arg)
      [] OTHER -> Into_impl(arg, R)

\* The call compiles: the argument's type satisfies the parameter's bound.
satisfies(arg, bound) ==
    IF bound.trait = "Into" THEN Into_impl(arg, bound.R) ELSE Build_impl(arg, bound.R)

TimeElementBuilder_bounds ==
    [gestational_age |-> Build("GestationalAge"), age |-> Build("Age"),
     ontology_class |-> Build("OntologyClass"), timestamp |-> Build("Timestamp")]

VitalStatusBuilder_bounds ==
    [time_of_death |-> Into("TimeElement"), time_of_death_at_age |-> Into("Age"),
     time_of_death_at_gestational_age |-> Into("GestationalAge"),
     cause_of_death |-> Into("OntologyClass")]

UpdateBuilder_bounds == [timestamp |-> Build("Timestamp")]

MetaDataBuilder_bounds ==
    [created |-> Build("Timestamp"),
     add_resource |-> Build("Resource"), extend_resources |-> Build("Resource"),
     add_update |-> Build("Update"), extend_updates |-> Build("Update"),
     add_external_reference |-> Build("ExternalReference"),
     extend_external_references |-> Build("ExternalReference")]

IndividualBuilder_bounds ==
    [date_of_birth |-> Build("Timestamp"), time_at_last_encounter |-> Build("TimeElement"),
     vital_status |-> Build("VitalStatus"), deceased_at |-> Into("TimeElement"),
     gender |-> Build("OntologyClass"), taxonomy |-> Build("OntologyClass")]

PhenotypicFeatureBuilder_bounds ==
    [type |-> Build("OntologyClass"), severity |-> Build("OntologyClass"),
     add_modifier |-> Build("OntologyClass"), extend_modifiers |-> Build("OntologyClass"),
     onset |-> Build("TimeElement"), resolution |-> Build("TimeElement"),
     add_evidence |-> Build("Evidence"), extend_evidence |-> Build("Evidence")]

PhenopacketBuilder_bounds ==
    [meta_data |-> Build("MetaData"), subject |-> Build("Individual"),
     add_phenotypic_feature |-> Build("PhenotypicFeature"),
     extend_phenotypic_features |-> Build("PhenotypicFeature")]

(***************************************************************************)
(* The call chain                                                          *)
(***************************************************************************)
\* A method consumes self and the chain goes on with the builder it returns;
\* a panic ends the program.
Call(r) ==
    /\ ~panicked
    /\ IF r = Panic THEN b' = Moved /\ panicked' = TRUE
                    ELSE b' = r /\ panicked' = panicked
    /\ UNCHANGED <<out, from>>

\* build consumes self and the chain ends with the finished record.
Finish(r) ==
    /\ ~panicked
    /\ IF r = Panic THEN out' = NoRecord /\ panicked' = TRUE
                    ELSE out' = r /\ panicked' = panicked
    /\ b' = Moved
    /\ from' = b
    /\ UNCHANGED replaced

\* The arguments of an extend_..: the sequences an iterator can yield.
Iter(S) == UNION {[1..n -> S] : n \in 0..MaxLen}

\* Buildable::Builder of each record type: the builder with every marker
\* parameter at its default, Unset.
Buildable ==
    [OntologyClass |-> OntologyClassBuilder_default(<<Unset>>),
     Timestamp |-> TimestampBuilder_default(<<Unset>>),
     TimeElement |-> TimeElementBuilder_default(<<Unset>>),
     Age |-> AgeBuilder_default(<<Unset>>),
     GestationalAge |-> GestationalAgeBuilder_default(<<Unset>>),
     ExternalReference |-> ExternalReferenceBuilder_default(<<>>),
     Individual |-> IndividualBuilder_default(<<Unset>>),
     VitalStatus |-> VitalStatusBuilder_default(<<Unset>>),
     MetaData |-> MetaDataBuilder_default(<<Unset, Unset, Unset>>),
     Resource |->
         ResourceBuilder_default(<<Unset, Unset, Unset, Unset, Unset, Unset>>),
     Update |-> UpdateBuilder_default(<<Unset>>),
     PhenotypicFeature |-> PhenotypicFeatureBuilder_default(<<Unset>>),
     Phenopacket |-> PhenopacketBuilder_default(<<Unset, Unset>>)]

\* R::builder(): a new chain starts.
Buildable_builder ==
    /\ ~panicked
    /\ \E R \in DOMAIN Buildable : b' = Buildable[R]
    /\ out' = NoRecord
    /\ from' = Moved
    /\ replaced' = None
    /\ UNCHANGED panicked

\* Default::default() at a builder type, whatever its markers, where the
\* derived Default exists.
Default_default ==
    /\ ~panicked
    /\ \E R \in DOMAIN Buildable :
         \E data \in [1..Len(Buildable[R].data) -> {Set, Unset}] :
            /\ DeriveDefault(data)
            /\ b' = [Buildable[R] EXCEPT !.data = data]
    /\ out' = NoRecord
    /\ from' = Moved
    /\ replaced' = None
    /\ UNCHANGED panicked

(***************************************************************************)
(* Actions: one per impl block, one disjunct per method.                   *)
(***************************************************************************)
\* impl OntologyClassBuilder<Unset>
OntologyClassBuilder_Unset ==
    /\ b.ty = "OntologyClassBuilder" /\ b.data = <<Unset>>
    /\ \E p \in OntologyClassPairs : Call(OntologyClassBuilder_id_label(b, p[1], p[2]))
    /\ UNCHANGED replaced

\* A build that takes &self: the chain still holds the builder afterwards.
OntologyClassBuilder_Set_build_by_ref ==
    /\ b.ty = "OntologyClassBuilder" /\ Build_OntologyClass_impl(b)
    /\ ~panicked
    /\ out' = OntologyClassBuilder_build(b)
    /\ from' = b
    /\ UNCHANGED <<b, panicked, replaced>>

\* impl Build<OntologyClass> for OntologyClassBuilder<Set>
OntologyClassBuilder_Set_build ==
    /\ b.ty = "OntologyClassBuilder" /\ Build_OntologyClass_impl(b)
    /\ Finish(OntologyClassBuilder_build(b))

\* impl TimestampBuilder<Unset>
TimestampBuilder_Unset ==
    \/ /\ b.ty = "TimestampBuilder" /\ b.data = <<Unset>>
       /\ \E p \in TimestampValues : Call(TimestampBuilder_seconds_nanos(b, p[1], p[2]))
       /\ UNCHANGED replaced
    \/ /\ b.ty = "TimestampBuilder" /\ b.data = <<Unset>>
       /\ ~panicked
       /\ \E s \in TimestampStrings :
            LET r == TimestampBuilder_iso8601timestamp(b, s)
            IN  IF r.ok THEN b' = r.v /\ out' = out
                        ELSE b' = Moved /\ out' = r.v
       /\ UNCHANGED <<from, panicked, replaced>>

\* impl Build<prost_types::Timestamp> for TimestampBuilder<Set>
TimestampBuilder_Set_build ==
    /\ b.ty = "TimestampBuilder" /\ Build_Timestamp_impl(b)
    /\ Finish(TimestampBuilder_build(b))

\* impl AgeBuilder<Unset>
AgeBuilder_Unset ==
    /\ b.ty = "AgeBuilder" /\ b.data = <<Unset>>
    /\ \E d \in Durations : Call(AgeBuilder_iso8601duration(b, d))
    /\ UNCHANGED replaced

\* impl Build<Age> for AgeBuilder<Set>
AgeBuilder_Set_build ==
    /\ b.ty = "AgeBuilder" /\ Build_Age_impl(b)
    /\ Finish(AgeBuilder_build(b))

\* impl GestationalAgeBuilder<Unset>
GestationalAgeBuilder_Unset ==
    /\ b.ty = "GestationalAgeBuilder" /\ b.data = <<Unset>>
    /\ \E w \in Weeks : Call(GestationalAgeBuilder_weeks(b, w))
    /\ UNCHANGED replaced

\* impl<T> GestationalAgeBuilder<T>
GestationalAgeBuilder_T ==
    /\ b.ty = "GestationalAgeBuilder"
    /\ \E d \in Days : Call(GestationalAgeBuilder_days(b, d))
    /\ UNCHANGED replaced

\* impl Build<GestationalAge> for GestationalAgeBuilder<Set>
GestationalAgeBuilder_Set_build ==
    /\ b.ty = "GestationalAgeBuilder" /\ Build_GestationalAge_impl(b)
    /\ Finish(GestationalAgeBuilder_build(b))

\* A variant constructor overwrites the holder.
Select(r) == Call(r) /\ replaced' = b.element

\* impl<T> TimeElementBuilder<T>
TimeElementBuilder_T ==
    \/ /\ b.ty = "TimeElementBuilder"
       /\ \E a \in GestationalAgeArgs :
            /\ satisfies(a, TimeElementBuilder_bounds.gestational_age)
            /\ Select(TimeElementBuilder_gestational_age(b, a))
    \/ /\ b.ty = "TimeElementBuilder"
       /\ \E w \in Weeks : Select(TimeElementBuilder_gestational_age_weeks(b, w))
    \/ /\ b.ty = "TimeElementBuilder"
       /\ \E w \in Weeks, d \in Days :
            Select(TimeElementBuilder_gestational_age_weeks_days(b, w, d))
    \/ /\ b.ty = "TimeElementBuilder"
       /\ \E a \in AgeArgs :
            /\ satisfies(a, TimeElementBuilder_bounds.age)
            /\ Select(TimeElementBuilder_age(b, a))
    \/ /\ b.ty = "TimeElementBuilder"
       /\ \E d \in Durations : Select(TimeElementBuilder_age_iso8601duration(b, d))
    \/ /\ b.ty = "TimeElementBuilder"
       /\ \E a \in OntologyClassArgs :
            /\ satisfies(a, TimeElementBuilder_bounds.ontology_class)
            /\ Select(TimeElementBuilder_ontology_class(b, a))
    \/ /\ b.ty = "TimeElementBuilder"
       /\ \E a \in TimestampArgs :
            /\ satisfies(a, TimeElementBuilder_bounds.timestamp)
            /\ Select(TimeElementBuilder_timestamp(b, a))

\* impl Build<TimeElement> for TimeElementBuilder<Set>
TimeElementBuilder_Set_build ==
    /\ b.ty = "TimeElementBuilder" /\ Build_TimeElement_impl(b)
    /\ Finish(TimeElementBuilder_build(b))

\* impl<T> VitalStatusBuilder<T>
VitalStatusBuilder_T ==
    \/ /\ b.ty = "VitalStatusBuilder"
       /\ \E st \in Status : Call(VitalStatusBuilder_status(b, st))
       /\ UNCHANGED replaced
    \/ /\ b.ty = "VitalStatusBuilder"
       /\ Call(VitalStatusBuilder_alive(b))
       /\ UNCHANGED replaced
    \/ /\ b.ty = "VitalStatusBuilder"
       /\ Call(VitalStatusBuilder_deceased(b))
       /\ UNCHANGED replaced
    \/ /\ b.ty = "VitalStatusBuilder"
       /\ \E a \in TimeElementArgs :
            /\ satisfies(a, VitalStatusBuilder_bounds.time_of_death)
            /\ Call(VitalStatusBuilder_time_of_death(b, a))
       /\ UNCHANGED replaced
    \/ /\ b.ty = "VitalStatusBuilder"
       /\ \E a \in AgeArgs :
            /\ satisfies(a, VitalStatusBuilder_bounds.time_of_death_at_age)
            /\ Call(VitalStatusBuilder_time_of_death_at_age(b, a))
       /\ UNCHANGED replaced
    \/ /\ b.ty = "VitalStatusBuilder"
       /\ \E a \in GestationalAgeArgs :
            /\ satisfies(a, VitalStatusBuilder_bounds.time_of_death_at_gestational_age)
            /\ Call(VitalStatusBuilder_time_of_death_at_gestational_age(b, a))
       /\ UNCHANGED replaced
    \/ /\ b.ty = "VitalStatusBuilder"
       /\ \E a \in OntologyClassArgs :
            /\ satisfies(a, VitalStatusBuilder_bounds.cause_of_death)
            /\ Call(VitalStatusBuilder_cause_of_death(b, a))
       /\ UNCHANGED replaced
    \/ /\ b.ty = "VitalStatusBuilder"
       /\ \E n \in SurvivalDays : Call(VitalStatusBuilder_survival_time_in_days(b, n))
       /\ UNCHANGED replaced

\* impl Build<VitalStatus> for VitalStatusBuilder<Set>
VitalStatusBuilder_Set_build ==
    /\ b.ty = "VitalStatusBuilder" /\ Build_VitalStatus_impl(b)
    /\ Finish(VitalStatusBuilder_build(b))

\* impl<U, V, X, Y, Z> ResourceBuilder<Unset, U, V, X, Y, Z>
ResourceBuilder_Unset_id ==
    /\ b.ty = "ResourceBuilder" /\ b.data[1] = Unset
    /\ \E v \in ResourceValues.id : Call(ResourceBuilder_id(b, v))
    /\ UNCHANGED replaced

\* impl<T, V, X, Y, Z> ResourceBuilder<T, Unset, V, X, Y, Z>
ResourceBuilder_Unset_name ==
    /\ b.ty = "ResourceBuilder" /\ b.data[2] = Unset
    /\ \E v \in ResourceValues.name : Call(ResourceBuilder_name(b, v))
    /\ UNCHANGED replaced

\* impl<T, U, X, Y, Z> ResourceBuilder<T, U, Unset, X, Y, Z>
ResourceBuilder_Unset_namespace_prefix ==
    /\ b.ty = "ResourceBuilder" /\ b.data[3] = Unset
    /\ \E v \in ResourceValues.namespace_prefix :
         Call(ResourceBuilder_namespace_prefix(b, v))
    /\ UNCHANGED replaced

\* impl<T, U, V, Y, Z> ResourceBuilder<T, U, V, Unset, Y, Z>
ResourceBuilder_Unset_url ==
    /\ b.ty = "ResourceBuilder" /\ b.data[4] = Unset
    /\ \E v \in ResourceValues.url : Call(ResourceBuilder_url(b, v))
    /\ UNCHANGED replaced

\* impl<T, U, V, X, Z> ResourceBuilder<T, U, V, X, Unset, Z>
ResourceBuilder_Unset_version ==
    /\ b.ty = "ResourceBuilder" /\ b.data[5] = Unset
    /\ \E v \in ResourceValues.version : Call(ResourceBuilder_version(b, v))
    /\ UNCHANGED replaced

\* impl<T, U, V, X, Y> ResourceBuilder<T, U, V, X, Y, Unset>
ResourceBuilder_Unset_iri_prefix ==
    /\ b.ty = "ResourceBuilder" /\ b.data[6] = Unset
    /\ \E v \in ResourceValues.iri_prefix : Call(ResourceBuilder_iri_prefix(b, v))
    /\ UNCHANGED replaced

\* impl<T, U, V, X, Y, Z> ResourceBuilder<T, U, V, X, Y, Z>: the presets
ResourceBuilder_T_U_V_X_Y_Z ==
    /\ b.ty = "ResourceBuilder"
    /\ \E preset \in DOMAIN ResourcePresets, v \in ResourceValues.version :
         Call(ResourceBuilder_preset(b, preset, v))
    /\ UNCHANGED replaced

\* impl Build<Resource> for ResourceBuilder<Set, Set, Set, Set, Set, Set>
ResourceBuilder_Set_build ==
    /\ b.ty = "ResourceBuilder" /\ Build_Resource_impl(b)
    /\ Finish(ResourceBuilder_build(b))

\* impl UpdateBuilder<Unset>
UpdateBuilder_Unset ==
    /\ b.ty = "UpdateBuilder" /\ b.data = <<Unset>>
    /\ \E a \in TimestampArgs :
         /\ satisfies(a, UpdateBuilder_bounds.timestamp)
         /\ Call(UpdateBuilder_timestamp(b, a))
    /\ UNCHANGED replaced

\* impl<T> UpdateBuilder<T>
UpdateBuilder_T ==
    \/ /\ b.ty = "UpdateBuilder"
       /\ \E v \in Names : Call(UpdateBuilder_updated_by(b, v))
       /\ UNCHANGED replaced
    \/ /\ b.ty = "UpdateBuilder"
       /\ \E v \in Comments : Call(UpdateBuilder_comment(b, v))
       /\ UNCHANGED replaced

\* impl Build<Update> for UpdateBuilder<Set>
UpdateBuilder_Set_build ==
    /\ b.ty = "UpdateBuilder" /\ Build_Update_impl(b)
    /\ Finish(UpdateBuilder_build(b))

\* impl ExternalReferenceBuilder
ExternalReferenceBuilder_impl ==
    \/ /\ b.ty = "ExternalReferenceBuilder"
       /\ \E v \in ReferenceStrings : Call(ExternalReferenceBuilder_id(b, v))
       /\ UNCHANGED replaced
    \/ /\ b.ty = "ExternalReferenceBuilder"
       /\ \E v \in ReferenceStrings : Call(ExternalReferenceBuilder_reference(b, v))
       /\ UNCHANGED replaced
    \/ /\ b.ty = "ExternalReferenceBuilder"
       /\ \E v \in ReferenceStrings : Call(ExternalReferenceBuilder_description(b, v))
       /\ UNCHANGED replaced

\* impl Build<ExternalReference> for ExternalReferenceBuilder
ExternalReferenceBuilder_Build_build ==
    /\ b.ty = "ExternalReferenceBuilder" /\ Build_ExternalReference_impl(b)
    /\ Finish(ExternalReferenceBuilder_build(b))

\* impl<U, V> MetaDataBuilder<Unset, U, V>
MetaDataBuilder_Unset_U_V ==
    /\ b.ty = "MetaDataBuilder" /\ b.data[1] = Unset
    /\ \E a \in TimestampArgs :
         /\ satisfies(a, MetaDataBuilder_bounds.created)
         /\ Call(MetaDataBuilder_created(b, a))
    /\ UNCHANGED replaced

\* impl<T, V> MetaDataBuilder<T, Unset, V>
MetaDataBuilder_T_Unset_V ==
    /\ b.ty = "MetaDataBuilder" /\ b.data[2] = Unset
    /\ \E v \in Names : Call(MetaDataBuilder_created_by(b, v))
    /\ UNCHANGED replaced

\* impl<T, U> MetaDataBuilder<T, U, Unset>
MetaDataBuilder_T_U_Unset ==
    \/ /\ b.ty = "MetaDataBuilder" /\ b.data[3] = Unset
       /\ \E v \in SchemaVersions : Call(MetaDataBuilder_phenopacket_schema_version(b, v))
       /\ UNCHANGED replaced
    \/ /\ b.ty = "MetaDataBuilder" /\ b.data[3] = Unset
       /\ Call(MetaDataBuilder_v2(b))
       /\ UNCHANGED replaced
    \/ /\ b.ty = "MetaDataBuilder" /\ b.data[3] = Unset
       /\ Call(MetaDataBuilder_v2_0_2(b))
       /\ UNCHANGED replaced

\* impl<T, U, V> MetaDataBuilder<T, U, V>
MetaDataBuilder_T_U_V ==
    \/ /\ b.ty = "MetaDataBuilder"
       /\ \E v \in Names : Call(MetaDataBuilder_submitted_by(b, v))
       /\ UNCHANGED replaced
    \/ /\ b.ty = "MetaDataBuilder" /\ Len(b.resources) < MaxLen
       /\ \E a \in ResourceArgs :
            /\ satisfies(a, MetaDataBuilder_bounds.add_resource)
            /\ Call(MetaDataBuilder_add_resource(b, a))
       /\ UNCHANGED replaced
    \/ /\ b.ty = "MetaDataBuilder"
       /\ \E as \in Iter(ResourceArgs) :
            /\ Len(b.resources) + Len(as) <= MaxLen
            /\ \A i \in 1..Len(as) :
                 satisfies(as[i], MetaDataBuilder_bounds.extend_resources)
            /\ Call(MetaDataBuilder_extend_resources(b, as))
       /\ UNCHANGED replaced
    \/ /\ b.ty = "MetaDataBuilder"
       /\ Call(MetaDataBuilder_clear_resources(b))
       /\ UNCHANGED replaced
    \/ /\ b.ty = "MetaDataBuilder" /\ Len(b.updates) < MaxLen
       /\ \E a \in UpdateArgs :
            /\ satisfies(a, MetaDataBuilder_bounds.add_update)
            /\ Call(MetaDataBuilder_add_update(b, a))
       /\ UNCHANGED replaced
    \/ /\ b.ty = "MetaDataBuilder"
       /\ \E as \in Iter(UpdateArgs) :
            /\ Len(b.updates) + Len(as) <= MaxLen
            /\ \A i \in 1..Len(as) :
                 satisfies(as[i], MetaDataBuilder_bounds.extend_updates)
            /\ Call(MetaDataBuilder_extend_updates(b, as))
       /\ UNCHANGED replaced
    \/ /\ b.ty = "MetaDataBuilder"
       /\ Call(MetaDataBuilder_clear_updates(b))
       /\ UNCHANGED replaced
    \/ /\ b.ty = "MetaDataBuilder" /\ Len(b.external_references) < MaxLen
       /\ \E a \in ExternalReferenceArgs :
            /\ satisfies(a, MetaDataBuilder_bounds.add_external_reference)
            /\ Call(MetaDataBuilder_add_external_reference(b, a))
       /\ UNCHANGED replaced
    \/ /\ b.ty = "MetaDataBuilder"
       /\ \E as \in Iter(ExternalReferenceArgs) :
            /\ Len(b.external_references) + Len(as) <= MaxLen
            /\ \A i \in 1..Len(as) :
                 satisfies(as[i], MetaDataBuilder_bounds.extend_external_references)
            /\ Call(MetaDataBuilder_extend_external_references(b, as))
       /\ UNCHANGED replaced
    \/ /\ b.ty = "MetaDataBuilder"
       /\ Call(MetaDataBuilder_clear_external_references(b))
       /\ UNCHANGED replaced

\* impl Build<MetaData> for MetaDataBuilder<Set, Set, Set>
MetaDataBuilder_Set_build ==
    /\ b.ty = "MetaDataBuilder" /\ Build_MetaData_impl(b)
    /\ Finish(MetaDataBuilder_build(b))

\* impl<T> IndividualBuilder<T>
IndividualBuilder_T ==
    \/ /\ b.ty = "IndividualBuilder" /\ Len(b.alternate_ids) < MaxLen
       /\ \E v \in AlternateIds : Call(IndividualBuilder_add_alternate_id(b, v))
       /\ UNCHANGED replaced
    \/ /\ b.ty = "IndividualBuilder"
       /\ \E vs \in Iter(AlternateIds) :
            /\ Len(b.alternate_ids) + Len(vs) <= MaxLen
            /\ Call(IndividualBuilder_extend_alternate_ids(b, vs))
       /\ UNCHANGED replaced
    \/ /\ b.ty = "IndividualBuilder"
       /\ Call(IndividualBuilder_clear_alternate_ids(b))
       /\ UNCHANGED replaced
    \/ /\ b.ty = "IndividualBuilder"
       /\ \E a \in TimestampArgs :
            /\ satisfies(a, IndividualBuilder_bounds.date_of_birth)
            /\ Call(IndividualBuilder_date_of_birth(b, a))
       /\ UNCHANGED replaced
    \/ /\ b.ty = "IndividualBuilder"
       /\ \E a \in TimeElementArgs :
            /\ satisfies(a, IndividualBuilder_bounds.time_at_last_encounter)
            /\ Call(IndividualBuilder_time_at_last_encounter(b, a))
       /\ UNCHANGED replaced
    \/ /\ b.ty = "IndividualBuilder"
       /\ \E a \in VitalStatusArgs :
            /\ satisfies(a, IndividualBuilder_bounds.vital_status)
            /\ Call(IndividualBuilder_vital_status(b, a))
       /\ UNCHANGED replaced
    \/ /\ b.ty = "IndividualBuilder"
       /\ Call(IndividualBuilder_deceased(b))
       /\ UNCHANGED replaced
    \/ /\ b.ty = "IndividualBuilder"
       /\ \E a \in TimeElementArgs :
            /\ satisfies(a, IndividualBuilder_bounds.deceased_at)
            /\ Call(IndividualBuilder_deceased_at(b, a))
       /\ UNCHANGED replaced
    \/ /\ b.ty = "IndividualBuilder"
       /\ Call(IndividualBuilder_alive(b))
       /\ UNCHANGED replaced
    \/ /\ b.ty = "IndividualBuilder"
       /\ \E v \in Sex : Call(IndividualBuilder_sex(b, v))
       /\ UNCHANGED replaced
    \/ /\ b.ty = "IndividualBuilder"
       /\ Call(IndividualBuilder_male(b))
       /\ UNCHANGED replaced
    \/ /\ b.ty = "IndividualBuilder"
       /\ Call(IndividualBuilder_female(b))
       /\ UNCHANGED replaced
    \/ /\ b.ty = "IndividualBuilder"
       /\ Call(IndividualBuilder_other_sex(b))
       /\ UNCHANGED replaced
    \/ /\ b.ty = "IndividualBuilder"
       /\ \E v \in KaryotypicSex : Call(IndividualBuilder_karyotypic_sex(b, v))
       /\ UNCHANGED replaced
    \/ /\ b.ty = "IndividualBuilder"
       /\ \E m \in DOMAIN KaryotypicSexShortcuts :
            Call(IndividualBuilder_karyotypic_sex_shortcut(b, m))
       /\ UNCHANGED replaced
    \/ /\ b.ty = "IndividualBuilder"
       /\ \E a \in OntologyClassArgs :
            /\ satisfies(a, IndividualBuilder_bounds.gender)
            /\ Call(IndividualBuilder_gender(b, a))
       /\ UNCHANGED replaced
    \/ /\ b.ty = "IndividualBuilder"
       /\ \E a \in OntologyClassArgs :
            /\ satisfies(a, IndividualBuilder_bounds.taxonomy)
            /\ Call(IndividualBuilder_taxonomy(b, a))
       /\ UNCHANGED replaced
    \/ /\ b.ty = "IndividualBuilder"
       /\ Call(IndividualBuilder_homo_sapiens(b))
       /\ UNCHANGED replaced

\* impl IndividualBuilder<Unset>
IndividualBuilder_Unset ==
    /\ b.ty = "IndividualBuilder" /\ b.data = <<Unset>>
    /\ \E v \in IndividualIds : Call(IndividualBuilder_id(b, v))
    /\ UNCHANGED replaced

\* impl Build<Individual> for IndividualBuilder<Set>
IndividualBuilder_Set_build ==
    /\ b.ty = "IndividualBuilder" /\ Build_Individual_impl(b)
    /\ Finish(IndividualBuilder_build(b))

\* impl PhenotypicFeatureBuilder<Unset>
PhenotypicFeatureBuilder_Unset ==
    /\ b.ty = "PhenotypicFeatureBuilder" /\ b.data = <<Unset>>
    /\ \E a \in OntologyClassArgs :
         /\ satisfies(a, PhenotypicFeatureBuilder_bounds.type)
         /\ Call(PhenotypicFeatureBuilder_type(b, a))
    /\ UNCHANGED replaced

\* impl<T> PhenotypicFeatureBuilder<T>
PhenotypicFeatureBuilder_T ==
    \/ /\ b.ty = "PhenotypicFeatureBuilder"
       /\ \E v \in Descriptions : Call(PhenotypicFeatureBuilder_description(b, v))
       /\ UNCHANGED replaced
    \/ /\ b.ty = "PhenotypicFeatureBuilder"
       /\ Call(PhenotypicFeatureBuilder_observed(b))
       /\ UNCHANGED replaced
    \/ /\ b.ty = "PhenotypicFeatureBuilder"
       /\ Call(PhenotypicFeatureBuilder_excluded(b))
       /\ UNCHANGED replaced
    \/ /\ b.ty = "PhenotypicFeatureBuilder"
       /\ \E a \in OntologyClassArgs :
            /\ satisfies(a, PhenotypicFeatureBuilder_bounds.severity)
            /\ Call(PhenotypicFeatureBuilder_severity(b, a))
       /\ UNCHANGED replaced
    \/ /\ b.ty = "PhenotypicFeatureBuilder" /\ Len(b.modifiers) < MaxLen
       /\ \E a \in OntologyClassArgs :
            /\ satisfies(a, PhenotypicFeatureBuilder_bounds.add_modifier)
            /\ Call(PhenotypicFeatureBuilder_add_modifier(b, a))
       /\ UNCHANGED replaced
    \/ /\ b.ty = "PhenotypicFeatureBuilder"
       /\ \E as \in Iter(OntologyClassArgs) :
            /\ Len(b.modifiers) + Len(as) <= MaxLen
            /\ \A i \in 1..Len(as) :
                 satisfies(as[i], PhenotypicFeatureBuilder_bounds.extend_modifiers)
            /\ Call(PhenotypicFeatureBuilder_extend_modifiers(b, as))
       /\ UNCHANGED replaced
    \/ /\ b.ty = "PhenotypicFeatureBuilder"
       /\ Call(PhenotypicFeatureBuilder_clear_modifiers(b))
       /\ UNCHANGED replaced
    \/ /\ b.ty = "PhenotypicFeatureBuilder"
       /\ \E a \in TimeElementArgs :
            /\ satisfies(a, PhenotypicFeatureBuilder_bounds.onset)
            /\ Call(PhenotypicFeatureBuilder_onset(b, a))
       /\ UNCHANGED replaced
    \/ /\ b.ty = "PhenotypicFeatureBuilder"
       /\ \E a \in TimeElementArgs :
            /\ satisfies(a, PhenotypicFeatureBuilder_bounds.resolution)
            /\ Call(PhenotypicFeatureBuilder_resolution(b, a))
       /\ UNCHANGED replaced
    \/ /\ b.ty = "PhenotypicFeatureBuilder" /\ Len(b.evidence) < MaxLen
       /\ \E a \in EvidenceArgs :
            /\ satisfies(a, PhenotypicFeatureBuilder_bounds.add_evidence)
            /\ Call(PhenotypicFeatureBuilder_add_evidence(b, a))
       /\ UNCHANGED replaced
    \/ /\ b.ty = "PhenotypicFeatureBuilder"
       /\ \E as \in Iter(EvidenceArgs) :
            /\ Len(b.evidence) + Len(as) <= MaxLen
            /\ \A i \in 1..Len(as) :
                 satisfies(as[i], PhenotypicFeatureBuilder_bounds.extend_evidence)
            /\ Call(PhenotypicFeatureBuilder_extend_evidence(b, as))
       /\ UNCHANGED replaced
    \/ /\ b.ty = "PhenotypicFeatureBuilder"
       /\ Call(PhenotypicFeatureBuilder_clear_evidence(b))
       /\ UNCHANGED replaced

\* impl Build<PhenotypicFeature> for PhenotypicFeatureBuilder<Set>
PhenotypicFeatureBuilder_Set_build ==
    /\ b.ty = "PhenotypicFeatureBuilder" /\ Build_PhenotypicFeature_impl(b)
    /\ Finish(PhenotypicFeatureBuilder_build(b))

\* id in an impl PhenopacketBuilder<Unset, Unset>: gone once meta_data is set.
PhenopacketBuilder_Unset_Unset ==
    /\ b.ty = "PhenopacketBuilder" /\ b.data = <<Unset, Unset>>
    /\ \E v \in PhenopacketIds : Call(PhenopacketBuilder_id(b, v))
    /\ UNCHANGED replaced

\* impl<U> PhenopacketBuilder<Unset, U>
PhenopacketBuilder_Unset_U ==
    /\ b.ty = "PhenopacketBuilder" /\ b.data[1] = Unset
    /\ \E v \in PhenopacketIds : Call(PhenopacketBuilder_id(b, v))
    /\ UNCHANGED replaced

\* impl<T> PhenopacketBuilder<T, Unset>
PhenopacketBuilder_T_Unset ==
    /\ b.ty = "PhenopacketBuilder" /\ b.data[2] = Unset
    /\ \E a \in MetaDataArgs :
         /\ satisfies(a, PhenopacketBuilder_bounds.meta_data)
         /\ Call(PhenopacketBuilder_meta_data(b, a))
    /\ UNCHANGED replaced

\* impl<T, U> PhenopacketBuilder<T, U>
PhenopacketBuilder_T_U ==
    \/ /\ b.ty = "PhenopacketBuilder"
       /\ \E a \in IndividualArgs :
            /\ satisfies(a, PhenopacketBuilder_bounds.subject)
            /\ Call(PhenopacketBuilder_subject(b, a))
       /\ UNCHANGED replaced
    \/ /\ b.ty = "PhenopacketBuilder" /\ Len(b.phenotypic_features) < MaxLen
       /\ \E a \in PhenotypicFeatureArgs :
            /\ satisfies(a, PhenopacketBuilder_bounds.add_phenotypic_feature)
            /\ Call(PhenopacketBuilder_add_phenotypic_feature(b, a))
       /\ UNCHANGED replaced
    \/ /\ b.ty = "PhenopacketBuilder"
       /\ \E as \in Iter(PhenotypicFeatureArgs) :
            /\ Len(b.phenotypic_features) + Len(as) <= MaxLen
            /\ \A i \in 1..Len(as) :
                 satisfies(as[i], PhenopacketBuilder_bounds.extend_phenotypic_features)
            /\ Call(PhenopacketBuilder_extend_phenotypic_features(b, as))
       /\ UNCHANGED replaced
    \/ /\ b.ty = "PhenopacketBuilder"
       /\ Call(PhenopacketBuilder_clear_phenotypic_features(b))
       /\ UNCHANGED replaced

\* impl Build<Phenopacket> for PhenopacketBuilder<Set, Set>
PhenopacketBuilder_Set_build ==
    /\ b.ty = "PhenopacketBuilder" /\ b.data = <<Set, Set>>
    /\ Finish(PhenopacketBuilder_build(b))

(***************************************************************************)
(* The specification                                                       *)
(***************************************************************************)
Init ==
    /\ b = Moved
    /\ out = NoRecord
    /\ from = Moved
    /\ panicked = FALSE
    /\ replaced = None

Next ==
    \/ Buildable_builder
    \/ Default_default
    \/ OntologyClassBuilder_Unset
    \/ OntologyClassBuilder_Set_build
    \/ TimestampBuilder_Unset
    \/ TimestampBuilder_Set_build
    \/ AgeBuilder_Unset
    \/ AgeBuilder_Set_build
    \/ GestationalAgeBuilder_Unset
    \/ GestationalAgeBuilder_T
    \/ GestationalAgeBuilder_Set_build
    \/ TimeElementBuilder_T
    \/ TimeElementBuilder_Set_build
    \/ VitalStatusBuilder_T
    \/ VitalStatusBuilder_Set_build
    \/ ResourceBuilder_Unset_id
    \/ ResourceBuilder_Unset_name
    \/ ResourceBuilder_Unset_namespace_prefix
    \/ ResourceBuilder_Unset_url
    \/ ResourceBuilder_Unset_version
    \/ ResourceBuilder_Unset_iri_prefix
    \/ ResourceBuilder_T_U_V_X_Y_Z
    \/ ResourceBuilder_Set_build
    \/ UpdateBuilder_Unset
    \/ UpdateBuilder_T
    \/ UpdateBuilder_Set_build
    \/ ExternalReferenceBuilder_impl
    \/ ExternalReferenceBuilder_Build_build
    \/ MetaDataBuilder_Unset_U_V
    \/ MetaDataBuilder_T_Unset_V
    \/ MetaDataBuilder_T_U_Unset
    \/ MetaDataBuilder_T_U_V
    \/ MetaDataBuilder_Set_build
    \/ IndividualBuilder_T
    \/ IndividualBuilder_Unset
    \/ IndividualBuilder_Set_build
    \/ PhenotypicFeatureBuilder_Unset
    \/ PhenotypicFeatureBuilder_T
    \/ PhenotypicFeatureBuilder_Set_build
    \/ PhenopacketBuilder_Unset_U
    \/ PhenopacketBuilder_T_Unset
    \/ PhenopacketBuilder_T_U
    \/ PhenopacketBuilder_Set_build

Spec == Init /\ [][Next]_vars

(***************************************************************************)
(* The slots of the markers                                                *)
(***************************************************************************)
\* Mandatory[ty][i]: the fields that the method of the i-th marker of the
\* builder `ty` assigns.
Mandatory ==
    [OntologyClassBuilder |-> <<{"id", "label"}>>,
     TimestampBuilder |-> <<{"timestamp"}>>,
     AgeBuilder |-> <<{"iso8601duration"}>>,
     GestationalAgeBuilder |-> <<{"weeks"}>>,
     TimeElementBuilder |-> <<{"element"}>>,
     VitalStatusBuilder |-> <<{"status"}>>,
     ResourceBuilder |-> <<{"id"}, {"name"}, {"namespace_prefix"}, {"url"},
                           {"version"}, {"iri_prefix"}>>,
     UpdateBuilder |-> <<{"timestamp"}>>,
     ExternalReferenceBuilder |-> <<>>,
     MetaDataBuilder |-> <<{"created"}, {"created_by"}, {"phenopacket_schema_version"}>>,
     IndividualBuilder |-> <<{"id"}>>,
     PhenotypicFeatureBuilder |-> <<{"type"}>>,
     PhenopacketBuilder |-> <<{"id"}, {"meta_data"}>>]

(***************************************************************************)
(* C1                                                                      *)
(***************************************************************************)
\* C1: build runs only on a builder whose every mandatory marker is Set: the
\* builder a build consumed has all its markers Set, and every finished
\* record the chain returned came from the builder of its type in that state.
C1_BuildOnlyWhenAllSet ==
    /\ from # Moved => (from.ty \in DOMAIN Mandatory /\ AllSet(from.data))
    /\ out.ty \in DOMAIN Buildable => from.ty = Buildable[out.ty].ty

\* A Phenopacket has been built, from a PhenopacketBuilder<Set, Set>.
C1_Witness ==
    /\ out.ty = "Phenopacket"
    /\ from.ty = "PhenopacketBuilder"
    /\ from.data = <<Set, Set>>
    /\ IsSome(out.meta_data)

(***************************************************************************)
(* C2                                                                      *)
(***************************************************************************)
\* C2: in every reachable builder state a marker that is Set has the value of
\* each of its fields present (Some), and no expect inside a build has failed.
C2_SetMarkerHasValue ==
    /\ ~panicked
    /\ b.ty \in DOMAIN Mandatory =>
         \A i \in 1..Len(b.data) :
            b.data[i] = Set => \A f \in Mandatory[b.ty][i] : IsSome(b[f])

\* A Resource has been built: six expects have run on an all-Set builder.
C2_Witness ==
    /\ out.ty = "Resource"
    /\ from.ty = "ResourceBuilder"
    /\ from.data = <<Set, Set, Set, Set, Set, Set>>
    /\ ~panicked

(***************************************************************************)
(* C3                                                                      *)
(***************************************************************************)
\* C3: a method that sets a mandatory field is enabled only while the
\* field's marker is Unset: along one chain, once a marker is Set the fields
\* of its slot are never assigned again.  (Stated for the plain mandatory
\* fields; the variant holder of TimeElementBuilder is the subject of C9.)
C3_SetOnce ==
    [][(b.ty \in DOMAIN Mandatory \ {"TimeElementBuilder"} /\ b'.ty = b.ty) =>
          \A i \in 1..Len(b.data) :
             (b.data[i] = Set /\ b'.data[i] = Set) =>
                \A f \in Mandatory[b.ty][i] : b'[f] = b[f]]_vars

(***************************************************************************)
(* C4                                                                      *)
(***************************************************************************)
\* The step fills the i-th slot of the builder and nothing else.
Frame(i) ==
    /\ b'.ty = b.ty
    /\ DOMAIN b' = DOMAIN b
    /\ b.data[i] = Unset
    /\ b'.data = [b.data EXCEPT ![i] = Set]
    /\ \A f \in Mandatory[b.ty][i] : IsSome(b'[f])
    /\ \A f \in DOMAIN b \ (Mandatory[b.ty][i] \cup {"data"}) : b'[f] = b[f]

\* C4: each mandatory-field setter changes only its own slot: its marker
\* becomes Set and its value present, and every other marker, mandatory
\* value, optional scalar and collection stays as it was.
C4_SetterFrame ==
    [][/\ MetaDataBuilder_Unset_U_V => Frame(1)
       /\ MetaDataBuilder_T_Unset_V => Frame(2)
       /\ MetaDataBuilder_T_U_Unset => Frame(3)
       /\ ResourceBuilder_Unset_id => Frame(1)
       /\ ResourceBuilder_Unset_name => Frame(2)
       /\ ResourceBuilder_Unset_namespace_prefix => Frame(3)
       /\ ResourceBuilder_Unset_url => Frame(4)
       /\ ResourceBuilder_Unset_version => Frame(5)
       /\ ResourceBuilder_Unset_iri_prefix => Frame(6)
       /\ PhenopacketBuilder_Unset_U => Frame(1)
       /\ PhenopacketBuilder_T_Unset => Frame(2)
       /\ IndividualBuilder_Unset => Frame(1)
       /\ PhenotypicFeatureBuilder_Unset => Frame(1)
       /\ UpdateBuilder_Unset => Frame(1)
       /\ GestationalAgeBuilder_Unset => Frame(1)]_vars

\* created_by was the first mandatory setter of a MetaDataBuilder that
\* already held resources, and it kept them.
C4_Witness ==
    /\ b.ty = "MetaDataBuilder"
    /\ b.data = <<Unset, Set, Unset>>
    /\ IsSome(b.created_by)
    /\ Len(b.resources) = MaxLen

(***************************************************************************)
(* C5                                                                      *)
(***************************************************************************)
\* A call that does not compile: no method of that name at the builder's type.
Rejected == [ty |-> "rejected"]

\* The setter of the i-th marker, which exists at the types whose i-th marker
\* is Unset.
MetaDataBuilder_set(self, i, v) ==
    IF self.data[i] # Unset THEN Rejected
    ELSE CASE i = 1 -> MetaDataBuilder_created(self, v)
           [] i = 2 -> MetaDataBuilder_created_by(self, v)
           [] i = 3 -> MetaDataBuilder_phenopacket_schema_version(self, v)

ResourceBuilder_set(self, i, v) ==
    IF self.data[i] # Unset THEN Rejected
    ELSE CASE i = 1 -> ResourceBuilder_id(self, v)
           [] i = 2 -> ResourceBuilder_name(self, v)
           [] i = 3 -> ResourceBuilder_namespace_prefix(self, v)
           [] i = 4 -> ResourceBuilder_url(self, v)
           [] i = 5 -> ResourceBuilder_version(self, v)
           [] i = 6 -> ResourceBuilder_iri_prefix(self, v)

PhenopacketBuilder_set(self, i, v) ==
    IF self.data[i] # Unset THEN Rejected
    ELSE CASE i = 1 -> PhenopacketBuilder_id(self, v)
           [] i = 2 -> PhenopacketBuilder_meta_data(self, v)

\* The chain self.set_o1(v[o1]).set_o2(v[o2])...
RECURSIVE in_order(_, _, _)
in_order(self, order, v) ==
    IF order = <<>> \/ self = Rejected THEN self
    ELSE LET i == Head(order)
             next == CASE self.ty = "MetaDataBuilder" -> MetaDataBuilder_set(self, i, v[i])
                       [] self.ty = "ResourceBuilder" -> ResourceBuilder_set(self, i, v[i])
                       [] self.ty = "PhenopacketBuilder" ->
                              PhenopacketBuilder_set(self, i, v[i])
         IN  in_order(next, Tail(order), v)

\* The values offered to the mandatory setters, by marker.
MandatoryValues ==
    [MetaDataBuilder |->
         <<{a \in TimestampArgs : satisfies(a, MetaDataBuilder_bounds.created)},
           Names, SchemaVersions>>,
     ResourceBuilder |->
         <<ResourceValues.id, ResourceValues.name, ResourceValues.namespace_prefix,
           ResourceValues.url, ResourceValues.version, ResourceValues.iri_prefix>>,
     PhenopacketBuilder |->
         <<PhenopacketIds,
           {a \in MetaDataArgs : satisfies(a, PhenopacketBuilder_bounds.meta_data)}>>]

RECURSIVE Product(_)
Product(sets) ==
    IF sets = <<>> THEN {<<>>}
    ELSE {<<x>> \o t : x \in Head(sets), t \in Product(Tail(sets))}

\* Every ordering of the elements of S, and the ascending one.
RECURSIVE Orderings(_)
Orderings(S) ==
    IF S = {} THEN {<<>>}
    ELSE UNION {{<<x>> \o o : o \in Orderings(S \ {x})} : x \in S}

RECURSIVE Ascending(_)
Ascending(S) ==
    IF S = {} THEN <<>>
    ELSE LET x == CHOOSE y \in S : \A z \in S : y <= z
         IN  <<x>> \o Ascending(S \ {x})

\* build of the three builders, and whether it exists at the builder's type.
k_build(self) ==
    CASE self.ty = "MetaDataBuilder" -> MetaDataBuilder_build(self)
      [] self.ty = "ResourceBuilder" -> ResourceBuilder_build(self)
      [] self.ty = "PhenopacketBuilder" -> PhenopacketBuilder_build(self)

k_build_impl(self) ==
    CASE self.ty = "MetaDataBuilder" -> Build_MetaData_impl(self)
      [] self.ty = "ResourceBuilder" -> Build_Resource_impl(self)
      [] self.ty = "PhenopacketBuilder" -> self.data = <<Set, Set>>
      [] OTHER -> FALSE

\* C5: from every reachable state of a MetaDataBuilder (k = 3), ResourceBuilder
\* (k = 6) or PhenopacketBuilder (k = 2), builder() included, every ordering of
\* the mandatory setters still to be called, with the same values, compiles,
\* ends at a type that has build, and builds the record that the ascending
\* ordering builds.
C5_AnyOrder ==
    b.ty \in DOMAIN MandatoryValues =>
        LET todo == {i \in 1..Len(b.data) : b.data[i] = Unset}
        IN  \A v \in Product(MandatoryValues[b.ty]) : \A o \in Orderings(todo) :
               /\ in_order(b, o, v) # Rejected
               /\ k_build_impl(in_order(b, o, v))
               /\ k_build(in_order(b, o, v)) = k_build(in_order(b, Ascending(todo), v))

\* The chain of a ResourceBuilder began with iri_prefix, the setter of the
\* last marker: the 120 orderings of the other five are still open.
C5_Witness ==
    /\ b.ty = "ResourceBuilder"
    /\ b.data = <<Unset, Unset, Unset, Unset, Unset, Set>>
    /\ b.iri_prefix \in {Some(v) : v \in ResourceValues.iri_prefix}

(***************************************************************************)
(* C6, C7                                                                  *)
(***************************************************************************)
\* The setters that take a record, by builder, and the values a call site
\* can offer for a record type.
Bounds ==
    [TimeElementBuilder |-> TimeElementBuilder_bounds,
     VitalStatusBuilder |-> VitalStatusBuilder_bounds,
     UpdateBuilder |-> UpdateBuilder_bounds,
     MetaDataBuilder |-> MetaDataBuilder_bounds,
     IndividualBuilder |-> IndividualBuilder_bounds,
     PhenotypicFeatureBuilder |-> PhenotypicFeatureBuilder_bounds,
     PhenopacketBuilder |-> PhenopacketBuilder_bounds]

Args ==
    [OntologyClass |-> OntologyClassArgs, Timestamp |-> TimestampArgs,
     Age |-> AgeArgs, GestationalAge |-> GestationalAgeArgs,
     TimeElement |-> TimeElementArgs, VitalStatus |-> VitalStatusArgs,
     Resource |-> ResourceArgs, Update |-> UpdateArgs,
     ExternalReference |-> ExternalReferenceArgs, MetaData |-> MetaDataArgs,
     Individual |-> IndividualArgs, PhenotypicFeature |-> PhenotypicFeatureArgs,
     Evidence |-> EvidenceArgs]

\* A finished R.
Finished(a, R) == a.ty = R

\* A builder of R with every marker Set.
AllFilled(a, R) == R \in DOMAIN Buildable /\ a.ty = Buildable[R].ty /\ AllSet(a.data)

\* C6: in every reachable state of a parent builder, an argument that a
\* record-taking setter accepts is a finished record or a nested builder
\* with every marker Set, never a builder with an Unset marker; and no nested
\* finalize inside a setter has failed.
C6_NoIncompleteNested ==
    /\ ~panicked
    /\ b.ty \in DOMAIN Bounds =>
         \A m \in DOMAIN Bounds[b.ty] :
            LET bound == Bounds[b.ty][m]
            IN  \A a \in Args[bound.R] :
                   satisfies(a, bound) => (Finished(a, bound.R) \/ AllFilled(a, bound.R))

\* A MetaDataBuilder has taken a created timestamp and MaxLen resources.
C6_Witness ==
    /\ b.ty = "MetaDataBuilder"
    /\ IsSome(b.created)
    /\ Len(b.resources) = MaxLen

\* C7: every setter whose field is a record accepts both a finished record
\* and a nested builder with every marker Set.
C7_AcceptsRecordAndBuilder ==
    b.ty \in DOMAIN Bounds =>
        \A m \in DOMAIN Bounds[b.ty] :
           LET bound == Bounds[b.ty][m]
           IN  \A a \in Args[bound.R] :
                  (Finished(a, bound.R) \/ AllFilled(a, bound.R)) => satisfies(a, bound)

(***************************************************************************)
(* C8                                                                      *)
(***************************************************************************)
\* For the setter `set` with parameter impl Build<R>: build is the identity
\* on a finished R, and at the builder b the setter returns the same builder
\* for an accepted argument and for the record that argument builds.
Same(set(_, _), build(_), bound, args) ==
    \A a \in args :
       satisfies(a, bound) =>
          /\ Finished(a, bound.R) => build(a) = a
          /\ satisfies(build(a), bound)
          /\ set(b, a) = set(b, build(a))

\* C8: Build on a finished value is the identity, so for every setter taking
\* impl Build<R>, in every reachable state of the parent, passing an all-Set
\* nested builder and passing the record it builds return the same parent
\* builder (and so the same finished parent).
C8_RecordOrBuilder ==
    /\ b.ty = "TimeElementBuilder" =>
         /\ Same(TimeElementBuilder_gestational_age, Build_GestationalAge,
                 TimeElementBuilder_bounds.gestational_age, GestationalAgeArgs)
         /\ Same(TimeElementBuilder_age, Build_Age,
                 TimeElementBuilder_bounds.age, AgeArgs)
         /\ Same(TimeElementBuilder_ontology_class, Build_OntologyClass,
                 TimeElementBuilder_bounds.ontology_class, OntologyClassArgs)
         /\ Same(TimeElementBuilder_timestamp, Build_Timestamp,
                 TimeElementBuilder_bounds.timestamp, TimestampArgs)
    /\ b.ty = "UpdateBuilder" =>
         Same(UpdateBuilder_timestamp, Build_Timestamp,
              UpdateBuilder_bounds.timestamp, TimestampArgs)
    /\ b.ty = "MetaDataBuilder" =>
         /\ Same(MetaDataBuilder_created, Build_Timestamp,
                 MetaDataBuilder_bounds.created, TimestampArgs)
         /\ Same(MetaDataBuilder_add_resource, Build_Resource,
                 MetaDataBuilder_bounds.add_resource, ResourceArgs)
         /\ Same(LAMBDA s, a : MetaDataBuilder_extend_resources(s, <<a, a>>),
                 Build_Resource, MetaDataBuilder_bounds.extend_resources, ResourceArgs)
         /\ Same(MetaDataBuilder_add_update, Build_Update,
                 MetaDataBuilder_bounds.add_update, UpdateArgs)
         /\ Same(LAMBDA s, a : MetaDataBuilder_extend_updates(s, <<a, a>>),
                 Build_Update, MetaDataBuilder_bounds.extend_updates, UpdateArgs)
         /\ Same(MetaDataBuilder_add_external_reference, Build_ExternalReference,
                 MetaDataBuilder_bounds.add_external_reference, ExternalReferenceArgs)
         /\ Same(LAMBDA s, a : MetaDataBuilder_extend_external_references(s, <<a, a>>),
                 Build_ExternalReference,
                 MetaDataBuilder_bounds.extend_external_references, ExternalReferenceArgs)
    /\ b.ty = "IndividualBuilder" =>
         /\ Same(IndividualBuilder_date_of_birth, Build_Timestamp,
                 IndividualBuilder_bounds.date_of_birth, TimestampArgs)
         /\ Same(IndividualBuilder_time_at_last_encounter, Build_TimeElement,
                 IndividualBuilder_bounds.time_at_last_encounter, TimeElementArgs)
         /\ Same(IndividualBuilder_vital_status, Build_VitalStatus,
                 IndividualBuilder_bounds.vital_status, VitalStatusArgs)
         /\ Same(IndividualBuilder_gender, Build_OntologyClass,
                 IndividualBuilder_bounds.gender, OntologyClassArgs)
         /\ Same(IndividualBuilder_taxonomy, Build_OntologyClass,
                 IndividualBuilder_bounds.taxonomy, OntologyClassArgs)
    /\ b.ty = "PhenotypicFeatureBuilder" =>
         /\ Same(PhenotypicFeatureBuilder_type, Build_OntologyClass,
                 PhenotypicFeatureBuilder_bounds.type, OntologyClassArgs)
         /\ Same(PhenotypicFeatureBuilder_severity, Build_OntologyClass,
                 PhenotypicFeatureBuilder_bounds.severity, OntologyClassArgs)
         /\ Same(PhenotypicFeatureBuilder_add_modifier, Build_OntologyClass,
                 PhenotypicFeatureBuilder_bounds.add_modifier, OntologyClassArgs)
         /\ Same(LAMBDA s, a : PhenotypicFeatureBuilder_extend_modifiers(s, <<a, a>>),
                 Build_OntologyClass,
                 PhenotypicFeatureBuilder_bounds.extend_modifiers, OntologyClassArgs)
         /\ Same(PhenotypicFeatureBuilder_onset, Build_TimeElement,
                 PhenotypicFeatureBuilder_bounds.onset, TimeElementArgs)
         /\ Same(PhenotypicFeatureBuilder_resolution, Build_TimeElement,
                 PhenotypicFeatureBuilder_bounds.resolution, TimeElementArgs)
         /\ Same(PhenotypicFeatureBuilder_add_evidence, Into_build,
                 PhenotypicFeatureBuilder_bounds.add_evidence, EvidenceArgs)
    /\ b.ty = "PhenopacketBuilder" =>
         /\ Same(PhenopacketBuilder_meta_data, Build_MetaData,
                 PhenopacketBuilder_bounds.meta_data, MetaDataArgs)
         /\ Same(PhenopacketBuilder_subject, Build_Individual,
                 PhenopacketBuilder_bounds.subject, IndividualArgs)
         /\ Same(PhenopacketBuilder_add_phenotypic_feature, Build_PhenotypicFeature,
                 PhenopacketBuilder_bounds.add_phenotypic_feature, PhenotypicFeatureArgs)
         /\ Same(LAMBDA s, a : PhenopacketBuilder_extend_phenotypic_features(s, <<a, a>>),
                 Build_PhenotypicFeature,
                 PhenopacketBuilder_bounds.extend_phenotypic_features,
                 PhenotypicFeatureArgs)

\* A PhenopacketBuilder holds a MetaData and an Individual: its setters have
\* finalized nested arguments.
C8_Witness ==
    /\ b.ty = "PhenopacketBuilder"
    /\ IsSome(b.meta_data)
    /\ IsSome(b.subject)
    /\ \E a \in MetaDataArgs : AllFilled(a, "MetaData") /\ Build_MetaData(a) = b.meta_data[1]

(***************************************************************************)
(* C9, C10                                                                 *)
(***************************************************************************)
\* The alternatives a TimeElementBuilder can select.
Variants == {"GestationalAge", "Age", "OntologyClass", "Timestamp"}

\* Exactly one alternative: one tag, and the payload of that tag.
OneAlternative(e) == e.ty = "Element" /\ e.variant \in Variants /\ e.value.ty = e.variant

\* Selecting with `select` at the builder b, whatever b holds, gives what the
\* same selection gives at a new builder: one element of the tag `variant`,
\* which is the element of the TimeElement then built.
Last(select(_, _), variant, xs) ==
    \A x \in xs :
       LET r == select(b, x)
       IN  /\ r = select(TimeElementBuilder_default(<<Unset>>), x)
           /\ Len(r.element) = 1
           /\ OneAlternative(r.element[1])
           /\ r.element[1].variant = variant
           /\ Build_TimeElement_impl(r)
           /\ TimeElementBuilder_build(r) = TimeElement(r.element)

\* C9: on a TimeElementBuilder that has selected any alternatives before,
\* selecting alternative B gives a finished TimeElement whose element is
\* exactly B's tag and payload, with nothing of the earlier selections.
C9_LastSelectionWins ==
    b.ty = "TimeElementBuilder" =>
        /\ Last(TimeElementBuilder_gestational_age, "GestationalAge",
                {a \in GestationalAgeArgs :
                    satisfies(a, TimeElementBuilder_bounds.gestational_age)})
        /\ Last(TimeElementBuilder_gestational_age_weeks, "GestationalAge", Weeks)
        /\ Last(LAMBDA s, x : TimeElementBuilder_gestational_age_weeks_days(s, x[1], x[2]),
                "GestationalAge", Weeks \X Days)
        /\ Last(TimeElementBuilder_age, "Age",
                {a \in AgeArgs : satisfies(a, TimeElementBuilder_bounds.age)})
        /\ Last(TimeElementBuilder_age_iso8601duration, "Age", Durations)
        /\ Last(TimeElementBuilder_ontology_class, "OntologyClass",
                {a \in OntologyClassArgs :
                    satisfies(a, TimeElementBuilder_bounds.ontology_class)})
        /\ Last(TimeElementBuilder_timestamp, "Timestamp",
                {a \in TimestampArgs : satisfies(a, TimeElementBuilder_bounds.timestamp)})

\* A timestamp was selected and then an ontology class, which replaced it.
C9_Witness ==
    /\ b.ty = "TimeElementBuilder"
    /\ IsSome(replaced)
    /\ IsSome(b.element)
    /\ replaced[1].variant = "Timestamp"
    /\ b.element[1].variant = "OntologyClass"

\* C10: the holder of a TimeElementBuilder never holds more than one
\* alternative; a variant constructor leaves it holding one, and from then on
\* no later state of that builder has it empty; a finished TimeElement holds
\* exactly one alternative.
C10_OneAlternative ==
    /\ [](/\ b.ty = "TimeElementBuilder" =>
               /\ Len(b.element) <= 1
               /\ IsSome(b.element) => OneAlternative(b.element[1])
          /\ out.ty = "TimeElement" =>
               /\ Len(out.element) = 1
               /\ OneAlternative(out.element[1]))
    /\ [][TimeElementBuilder_T => IsSome(b'.element)]_vars
    /\ [][(/\ b.ty = "TimeElementBuilder" /\ IsSome(b.element)
           /\ b'.ty = "TimeElementBuilder"
           /\ ~Buildable_builder /\ ~Default_default) => IsSome(b'.element)]_vars

\* A TimeElement was built after a second selection had replaced the first.
C10_Witness ==
    /\ out.ty = "TimeElement"
    /\ from.ty = "TimeElementBuilder"
    /\ IsSome(replaced)
    /\ out.element = from.element

(***************************************************************************)
(* Optional collections                                                    *)
(***************************************************************************)
\* The Vec fields of each builder that have add / extend / clear methods.
Collections ==
    [IndividualBuilder |-> {"alternate_ids"},
     MetaDataBuilder |-> {"resources", "updates", "external_references"},
     PhenotypicFeatureBuilder |-> {"modifiers", "evidence"},
     PhenopacketBuilder |-> {"phenotypic_features"}]

\* The add-one, extend and clear method of a collection field.
Collection_add(self, f, a) ==
    CASE f = "alternate_ids" -> IndividualBuilder_add_alternate_id(self, a)
      [] f = "resources" -> MetaDataBuilder_add_resource(self, a)
      [] f = "updates" -> MetaDataBuilder_add_update(self, a)
      [] f = "external_references" -> MetaDataBuilder_add_external_reference(self, a)
      [] f = "modifiers" -> PhenotypicFeatureBuilder_add_modifier(self, a)
      [] f = "evidence" -> PhenotypicFeatureBuilder_add_evidence(self, a)
      [] f = "phenotypic_features" ->
            PhenopacketBuilder_add_phenotypic_feature(self, a)

Collection_extend(self, f, as) ==
    CASE f = "alternate_ids" -> IndividualBuilder_extend_alternate_ids(self, as)
      [] f = "resources" -> MetaDataBuilder_extend_resources(self, as)
      [] f = "updates" -> MetaDataBuilder_extend_updates(self, as)
      [] f = "external_references" ->
            MetaDataBuilder_extend_external_references(self, as)
      [] f = "modifiers" -> PhenotypicFeatureBuilder_extend_modifiers(self, as)
      [] f = "evidence" -> PhenotypicFeatureBuilder_extend_evidence(self, as)
      [] f = "phenotypic_features" ->
            PhenopacketBuilder_extend_phenotypic_features(self, as)

Collection_clear(self, f) ==
    CASE f = "alternate_ids" -> IndividualBuilder_clear_alternate_ids(self)
      [] f = "resources" -> MetaDataBuilder_clear_resources(self)
      [] f = "updates" -> MetaDataBuilder_clear_updates(self)
      [] f = "external_references" -> MetaDataBuilder_clear_external_references(self)
      [] f = "modifiers" -> PhenotypicFeatureBuilder_clear_modifiers(self)
      [] f = "evidence" -> PhenotypicFeatureBuilder_clear_evidence(self)
      [] f = "phenotypic_features" ->
            PhenopacketBuilder_clear_phenotypic_features(self)

\* The arguments the add-one method of a field accepts, and the element each
\* of them stands for.
Collection_args(f) ==
    CASE f = "alternate_ids" -> AlternateIds
      [] f = "resources" ->
            {a \in ResourceArgs : satisfies(a, MetaDataBuilder_bounds.add_resource)}
      [] f = "updates" ->
            {a \in UpdateArgs : satisfies(a, MetaDataBuilder_bounds.add_update)}
      [] f = "external_references" ->
            {a \in ExternalReferenceArgs :
                satisfies(a, MetaDataBuilder_bounds.add_external_reference)}
      [] f = "modifiers" ->
            {a \in OntologyClassArgs :
                satisfies(a, PhenotypicFeatureBuilder_bounds.add_modifier)}
      [] f = "evidence" ->
            {a \in EvidenceArgs :
                satisfies(a, PhenotypicFeatureBuilder_bounds.add_evidence)}
      [] f = "phenotypic_features" ->
            {a \in PhenotypicFeatureArgs :
                satisfies(a, PhenopacketBuilder_bounds.add_phenotypic_feature)}

Collection_item(f, a) ==
    CASE f = "alternate_ids" -> a
      [] f = "resources" -> Build_Resource(a)
      [] f = "updates" -> Build_Update(a)
      [] f = "external_references" -> Build_ExternalReference(a)
      [] f = "modifiers" -> Build_OntologyClass(a)
      [] f = "evidence" -> a
      [] f = "phenotypic_features" -> Build_PhenotypicFeature(a)

IsPrefix(s, t) == Len(s) <= Len(t) /\ SubSeq(t, 1, Len(s)) = s

C12_Clear ==
    /\ [](b.ty \in DOMAIN Collections =>
            \A f \in Collections[b.ty] :
               LET c == Collection_clear(b, f)
               IN  /\ c[f] = <<>>
                   /\ DOMAIN c = DOMAIN b
                   /\ \A g \in DOMAIN b \ {f} : c[g] = b[g]
                   /\ Collection_clear(c, f) = c)
    /\ [][(b.ty \in DOMAIN Collections /\ b'.ty = b.ty) =>
            \A f \in Collections[b.ty] :
               (/\ b[f] # <<>> /\ b'[f] = <<>>
                /\ ~Buildable_builder /\ ~Default_default) =>
                  b' = [b EXCEPT ![f] = <<>>]]_vars

\* A PhenotypicFeatureBuilder with its type set, whose modifiers were cleared
\* after its evidence had been added.
C12_Witness ==
    /\ b.ty = "PhenotypicFeatureBuilder"
    /\ b.data = <<Set>>
    /\ b.modifiers = <<>>
    /\ Len(b.evidence) = MaxLen
    /\ IsSome(b.severity)

(***************************************************************************)
(* Optional fields                                                         *)
(***************************************************************************)
\* The fields behind the markers of a builder type.
MandatoryFields(ty) == UNION {Mandatory[ty][i] : i \in DOMAIN Mandatory[ty]}

\* A call of an optional setter: a step of an impl block that holds no
\* mandatory setter, and a step of impl<T> VitalStatusBuilder<T> other than
\* status / alive / deceased.
OptionalSetter ==
    \/ GestationalAgeBuilder_T
    \/ VitalStatusBuilder_T /\ b'.ty = b.ty /\ b'.status = b.status
    \/ UpdateBuilder_T
    \/ ExternalReferenceBuilder_impl
    \/ MetaDataBuilder_T_U_V
    \/ IndividualBuilder_T
    \/ PhenotypicFeatureBuilder_T
    \/ PhenopacketBuilder_T_U

\* The method whose result is r can be called in the current state.
Callable(block, r) == ENABLED (block /\ b' = r)

\* Every method of impl<T, U, V> MetaDataBuilder<T, U, V> can be called, with
\* an argument it accepts; the collections of the model are cut at MaxLen.
MetaDataBuilder_T_U_V_callable ==
    /\ Callable(MetaDataBuilder_T_U_V, MetaDataBuilder_submitted_by(b, "Peter R."))
    /\ \A f \in Collections.MetaDataBuilder :
         LET a == CHOOSE a \in Collection_args(f) : TRUE
         IN  /\ Callable(MetaDataBuilder_T_U_V, Collection_clear(b, f))
             /\ Len(b[f]) < MaxLen =>
                  /\ Callable(MetaDataBuilder_T_U_V, Collection_add(b, f, a))
                  /\ Callable(MetaDataBuilder_T_U_V, Collection_extend(b, f, <<a>>))

\* Every method of impl<T> IndividualBuilder<T> can be called, with every
\* argument it accepts.
IndividualBuilder_T_callable ==
    /\ Callable(IndividualBuilder_T, IndividualBuilder_clear_alternate_ids(b))
    /\ Len(b.alternate_ids) < MaxLen =>
         \A v \in AlternateIds :
            /\ Callable(IndividualBuilder_T, IndividualBuilder_add_alternate_id(b, v))
            /\ Callable(IndividualBuilder_T,
                        IndividualBuilder_extend_alternate_ids(b, <<v>>))
    /\ \A a \in TimestampArgs :
         satisfies(a, IndividualBuilder_bounds.date_of_birth) =>
            Callable(IndividualBuilder_T, IndividualBuilder_date_of_birth(b, a))
    /\ \A a \in TimeElementArgs :
         /\ satisfies(a, IndividualBuilder_bounds.time_at_last_encounter) =>
              Callable(IndividualBuilder_T,
                       IndividualBuilder_time_at_last_encounter(b, a))
         /\ satisfies(a, IndividualBuilder_bounds.deceased_at) =>
              Callable(IndividualBuilder_T, IndividualBuilder_deceased_at(b, a))
    /\ \A a \in VitalStatusArgs :
         satisfies(a, IndividualBuilder_bounds.vital_status) =>
            Callable(IndividualBuilder_T, IndividualBuilder_vital_status(b, a))
    /\ Callable(IndividualBuilder_T, IndividualBuilder_deceased(b))
    /\ Callable(IndividualBuilder_T, IndividualBuilder_alive(b))
    /\ \A v \in Sex : Callable(IndividualBuilder_T, IndividualBuilder_sex(b, v))
    /\ Callable(IndividualBuilder_T, IndividualBuilder_male(b))
    /\ Callable(IndividualBuilder_T, IndividualBuilder_female(b))
    /\ Callable(IndividualBuilder_T, IndividualBuilder_other_sex(b))
    /\ \A v \in KaryotypicSex :
         Callable(IndividualBuilder_T, IndividualBuilder_karyotypic_sex(b, v))
    /\ \A m \in DOMAIN KaryotypicSexShortcuts :
         Callable(IndividualBuilder_T,
                  IndividualBuilder_karyotypic_sex_shortcut(b, m))
    /\ \A a \in OntologyClassArgs :
         /\ satisfies(a, IndividualBuilder_bounds.gender) =>
              Callable(IndividualBuilder_T, IndividualBuilder_gender(b, a))
         /\ satisfies(a, IndividualBuilder_bounds.taxonomy) =>
              Callable(IndividualBuilder_T, IndividualBuilder_taxonomy(b, a))
    /\ Callable(IndividualBuilder_T, IndividualBuilder_homo_sapiens(b))

\* C13: no call of an optional-scalar or optional-collection setter returns
\* a builder of another type, with another marker or with another value in a
\* mandatory field; and in every state of a chain, whatever the markers and
\* whatever was called before, the impl block of the optional setters can be
\* called, the header of the block being what admits or excludes a marker.
\* Method by method as well: every method of MetaDataBuilder in the states
\* where updates and external_references are empty, and every method of
\* IndividualBuilder in the states where sex and karyotypic_sex hold their
\* defaults, whatever the markers and the other fields.
C13_OptionalSetters ==
    /\ ~ENABLED (OptionalSetter /\
                    ~(/\ b'.ty = b.ty
                      /\ b'.data = b.data
                      /\ \A g \in MandatoryFields(b.ty) : b'[g] = b[g]))
    /\ ~panicked =>
         /\ b.ty = "GestationalAgeBuilder" => ENABLED GestationalAgeBuilder_T
         /\ b.ty = "VitalStatusBuilder" =>
              \A n \in SurvivalDays :
                 Callable(VitalStatusBuilder_T,
                          VitalStatusBuilder_survival_time_in_days(b, n))
         /\ b.ty = "UpdateBuilder" => ENABLED UpdateBuilder_T
         /\ b.ty = "ExternalReferenceBuilder" =>
              ENABLED ExternalReferenceBuilder_impl
         /\ b.ty = "PhenotypicFeatureBuilder" =>
              ENABLED PhenotypicFeatureBuilder_T
         /\ b.ty = "PhenopacketBuilder" => ENABLED PhenopacketBuilder_T_U
         /\ b.ty = "MetaDataBuilder" =>
              /\ ENABLED MetaDataBuilder_T_U_V
              /\ (b.updates = <<>> /\ b.external_references = <<>>)
                    => MetaDataBuilder_T_U_V_callable
         /\ b.ty = "IndividualBuilder" =>
              /\ ENABLED IndividualBuilder_T
              /\ (b.sex = "UNKNOWN_SEX" /\ b.karyotypic_sex = "UNKNOWN_KARYOTYPE")
                    => IndividualBuilder_T_callable

\* A MetaDataBuilder with one marker Set and two Unset on which optional
\* setters, scalar and collection, have been called.
C13_Witness ==
    /\ b.ty = "MetaDataBuilder"
    /\ b.data = <<Unset, Set, Unset>>
    /\ IsSome(b.submitted_by)
    /\ Len(b.updates) = MaxLen
    /\ Len(b.external_references) > 0

\* At the builder b, ready to build: after set(v1) and then set(v2) the
\* finished record holds under f what v2 stands for, and is the record that
\* set(v2) alone gives.
LastWins(set(_, _), build(_), f, values, stored(_)) ==
    \A v1, v2 \in values :
       LET r == build(set(set(b, v1), v2))
       IN  /\ r[f] = stored(v2)
           /\ r = build(set(b, v2))

Accepted(args, bound) == {a \in args : satisfies(a, bound)}

\* C14: in every state of a builder whose markers are all Set, whatever was
\* written before, two calls of an optional-scalar setter followed by build
\* give a record that holds the value of the second call, the same record
\* as the second call alone gives.
C14_LastWriteWins ==
    (~panicked /\ b.ty \in DOMAIN Mandatory /\ AllSet(b.data)) =>
    /\ b.ty = "IndividualBuilder" =>
         /\ LastWins(IndividualBuilder_sex, IndividualBuilder_build, "sex",
                     Sex, Sex_into)
         /\ LastWins(IndividualBuilder_karyotypic_sex, IndividualBuilder_build,
                     "karyotypic_sex", KaryotypicSex, KaryotypicSex_into)
         /\ LastWins(IndividualBuilder_gender, IndividualBuilder_build, "gender",
                     Accepted(OntologyClassArgs, IndividualBuilder_bounds.gender),
                     LAMBDA a : Some(Build_OntologyClass(a)))
         /\ LastWins(IndividualBuilder_taxonomy, IndividualBuilder_build, "taxonomy",
                     Accepted(OntologyClassArgs, IndividualBuilder_bounds.taxonomy),
                     LAMBDA a : Some(Build_OntologyClass(a)))
         /\ LastWins(IndividualBuilder_date_of_birth, IndividualBuilder_build,
                     "date_of_birth",
                     Accepted(TimestampArgs, IndividualBuilder_bounds.date_of_birth),
                     LAMBDA a : Some(Build_Timestamp(a)))
         /\ LastWins(IndividualBuilder_time_at_last_encounter,
                     IndividualBuilder_build, "time_at_last_encounter",
                     Accepted(TimeElementArgs,
                              IndividualBuilder_bounds.time_at_last_encounter),
                     LAMBDA a : Some(Build_TimeElement(a)))
         /\ LastWins(IndividualBuilder_vital_status, IndividualBuilder_build,
                     "vital_status",
                     Accepted(VitalStatusArgs, IndividualBuilder_bounds.vital_status),
                     LAMBDA a : Some(Build_VitalStatus(a)))
    /\ b.ty = "PhenotypicFeatureBuilder" =>
         /\ LastWins(PhenotypicFeatureBuilder_description,
                     PhenotypicFeatureBuilder_build, "description", Descriptions,
                     LAMBDA v : v)
         /\ LastWins(PhenotypicFeatureBuilder_severity,
                     PhenotypicFeatureBuilder_build, "severity",
                     Accepted(OntologyClassArgs,
                              PhenotypicFeatureBuilder_bounds.severity),
                     LAMBDA a : Some(Build_OntologyClass(a)))
         /\ LastWins(PhenotypicFeatureBuilder_onset,
                     PhenotypicFeatureBuilder_build, "onset",
                     Accepted(TimeElementArgs, PhenotypicFeatureBuilder_bounds.onset),
                     LAMBDA a : Some(Build_TimeElement(a)))
         /\ LastWins(PhenotypicFeatureBuilder_resolution,
                     PhenotypicFeatureBuilder_build, "resolution",
                     Accepted(TimeElementArgs,
                              PhenotypicFeatureBuilder_bounds.resolution),
                     LAMBDA a : Some(Build_TimeElement(a)))
         /\ PhenotypicFeatureBuilder_build(PhenotypicFeatureBuilder_excluded(
                PhenotypicFeatureBuilder_observed(b))).excluded = TRUE
         /\ PhenotypicFeatureBuilder_build(PhenotypicFeatureBuilder_observed(
                PhenotypicFeatureBuilder_excluded(b))).excluded = FALSE
    /\ b.ty = "MetaDataBuilder" =>
         LastWins(MetaDataBuilder_submitted_by, MetaDataBuilder_build,
                  "submitted_by", Names, LAMBDA v : v)
    /\ b.ty = "VitalStatusBuilder" =>
         LastWins(VitalStatusBuilder_survival_time_in_days, VitalStatusBuilder_build,
                  "survival_time_in_days", SurvivalDays, LAMBDA v : v)
    /\ b.ty = "UpdateBuilder" =>
         /\ LastWins(UpdateBuilder_updated_by, UpdateBuilder_build, "updated_by",
                     Names, LAMBDA v : v)
         /\ LastWins(UpdateBuilder_comment, UpdateBuilder_build, "comment",
                     Comments, LAMBDA v : v)
    /\ b.ty = "GestationalAgeBuilder" =>
         LastWins(GestationalAgeBuilder_days, GestationalAgeBuilder_build, "days",
                  Days, LAMBDA v : v)
    /\ b.ty = "ExternalReferenceBuilder" =>
         /\ LastWins(ExternalReferenceBuilder_id, ExternalReferenceBuilder_build,
                     "id", ReferenceStrings, LAMBDA v : v)
         /\ LastWins(ExternalReferenceBuilder_reference,
                     ExternalReferenceBuilder_build, "reference", ReferenceStrings,
                     LAMBDA v : v)
         /\ LastWins(ExternalReferenceBuilder_description,
                     ExternalReferenceBuilder_build, "description",
                     ReferenceStrings, LAMBDA v : v)
    /\ b.ty = "PhenopacketBuilder" =>
         LastWins(PhenopacketBuilder_subject, PhenopacketBuilder_build, "subject",
                  Accepted(IndividualArgs, PhenopacketBuilder_bounds.subject),
                  LAMBDA a : Some(Build_Individual(a)))

\* An IndividualBuilder with its id set, on which sex, karyotypic_sex,
\* gender and date_of_birth have been written.
C14_Witness ==
    /\ b.ty = "IndividualBuilder"
    /\ b.data = <<Set>>
    /\ b.sex = "FEMALE"
    /\ b.karyotypic_sex = "XX"
    /\ IsSome(b.gender)
    /\ IsSome(b.date_of_birth)

\* The optional fields of each record and the value each has when its
\* builder field is as Default left it: 0, the empty string, false, the empty
\* Vec, None.
Defaults ==
    [GestationalAge |-> [days |-> 0],
     VitalStatus |-> [time_of_death |-> None, cause_of_death |-> None,
                      survival_time_in_days |-> 0],
     Update |-> [updated_by |-> "", comment |-> ""],
     ExternalReference |-> [id |-> "", reference |-> "", description |-> ""],
     MetaData |-> [submitted_by |-> "", resources |-> <<>>, updates |-> <<>>,
                   external_references |-> <<>>],
     Individual |-> [alternate_ids |-> <<>>, date_of_birth |-> None,
                     time_at_last_encounter |-> None, vital_status |-> None,
                     gender |-> None, taxonomy |-> None],
     PhenotypicFeature |-> [description |-> "", excluded |-> FALSE,
                            severity |-> None, modifiers |-> <<>>, onset |-> None,
                            resolution |-> None, evidence |-> <<>>],
     Phenopacket |-> [subject |-> None, phenotypic_features |-> <<>>]]

\* C15: a finished record holds the default under every optional field that
\* its builder held as builder() had left it.
C15_UnsetDefaults ==
    (~panicked /\ from # Moved /\ out.ty \in DOMAIN Defaults) =>
       \A g \in DOMAIN Defaults[out.ty] :
          from[g] = Buildable[out.ty][g] => out[g] = Defaults[out.ty][g]

\* A PhenotypicFeature built from a builder on which only type was called.
C15_Witness ==
    /\ out.ty = "PhenotypicFeature"
    /\ from = [Buildable.PhenotypicFeature EXCEPT !.type = from.type,
                                                  !.data = <<Set>>]
    /\ out.description = ""
    /\ out.modifiers = <<>>
    /\ out.onset = None

\* For the optional field g with default d: at a builder b that never wrote
\* g, writing d changes nothing in the finished record; and a record built
\* from a builder that holds d under g is the record of the same builder
\* with g untouched.
Untouched(ty, set(_, _), build(_), g, d) ==
    /\ (b.ty = ty /\ AllSet(b.data) /\ b[g] = None) =>
          build(set(b, d)) = build(b)
    /\ (from.ty = ty /\ from[g] = Some(d)) =>
          out = build([from EXCEPT ![g] = None])

\* C16: the finished record is the same whether an optional field was set
\* to its default or never touched.
C16_ExplicitDefault ==
    ~panicked =>
    /\ Untouched("GestationalAgeBuilder", GestationalAgeBuilder_days,
                 GestationalAgeBuilder_build, "days", 0)
    /\ Untouched("VitalStatusBuilder", VitalStatusBuilder_survival_time_in_days,
                 VitalStatusBuilder_build, "survival_time_in_days", 0)
    /\ Untouched("PhenotypicFeatureBuilder", PhenotypicFeatureBuilder_description,
                 PhenotypicFeatureBuilder_build, "description", "")
    /\ Untouched("MetaDataBuilder", MetaDataBuilder_submitted_by,
                 MetaDataBuilder_build, "submitted_by", "")
    /\ Untouched("UpdateBuilder", UpdateBuilder_updated_by, UpdateBuilder_build,
                 "updated_by", "")
    /\ Untouched("UpdateBuilder", UpdateBuilder_comment, UpdateBuilder_build,
                 "comment", "")
    /\ Untouched("ExternalReferenceBuilder", ExternalReferenceBuilder_id,
                 ExternalReferenceBuilder_build, "id", "")
    /\ Untouched("ExternalReferenceBuilder", ExternalReferenceBuilder_reference,
                 ExternalReferenceBuilder_build, "reference", "")
    /\ Untouched("ExternalReferenceBuilder", ExternalReferenceBuilder_description,
                 ExternalReferenceBuilder_build, "description", "")

\* A GestationalAge built after days(0).
C16_Witness ==
    /\ out.ty = "GestationalAge"
    /\ from.ty = "GestationalAgeBuilder"
    /\ from.days = Some(0)
    /\ out.days = 0

(***************************************************************************)
(* Round trip                                                              *)
(***************************************************************************)
\* The finished records among the values a call site offers.
Records(args, R) == {a \in args : a.ty = R}

\* At the builder b, where the setter of field f can be called (ok): the
\* setter with the literal v leaves every other field of the builder as it
\* was, and once every marker is Set the finished record reads read(v) under
\* f: v itself, Some(v) where the field of the record is an Option, the i32
\* of v where v is a variant of a protobuf enum.
RoundTrip(ok, set(_, _), build(_), f, values, read(_)) ==
    ok => \A v \in values :
             LET s == set(b, v)
             IN  /\ \A g \in DOMAIN b \ {f, "data"} : s[g] = b[g]
                 /\ AllSet(s.data) => build(s)[f] = read(v)

RoundTrip_base ==
    /\ (b.ty = "OntologyClassBuilder" /\ b.data = <<Unset>>) =>
          \A p \in OntologyClassPairs :
             OntologyClassBuilder_build(OntologyClassBuilder_id_label(b, p[1], p[2]))
                = [ty |-> "OntologyClass", id |-> p[1], label |-> p[2]]
    /\ (b.ty = "TimestampBuilder" /\ b.data = <<Unset>>) =>
          \A p \in TimestampValues :
             TimestampBuilder_build(TimestampBuilder_seconds_nanos(b, p[1], p[2]))
                = [ty |-> "Timestamp", seconds |-> p[1], nanos |-> p[2]]
    /\ RoundTrip(b.ty = "AgeBuilder" /\ b.data = <<Unset>>,
                 AgeBuilder_iso8601duration, AgeBuilder_build, "iso8601duration",
                 Durations, LAMBDA v : v)
    /\ RoundTrip(b.ty = "GestationalAgeBuilder" /\ b.data = <<Unset>>,
                 GestationalAgeBuilder_weeks, GestationalAgeBuilder_build, "weeks",
                 Weeks, LAMBDA v : v)
    /\ RoundTrip(b.ty = "GestationalAgeBuilder", GestationalAgeBuilder_days,
                 GestationalAgeBuilder_build, "days", Days, LAMBDA v : v)
    /\ RoundTrip(b.ty = "TimeElementBuilder", TimeElementBuilder_gestational_age,
                 TimeElementBuilder_build, "element",
                 Records(GestationalAgeArgs, "GestationalAge"),
                 LAMBDA v : Some(Element("GestationalAge", v)))
    /\ RoundTrip(b.ty = "TimeElementBuilder", TimeElementBuilder_age,
                 TimeElementBuilder_build, "element", Records(AgeArgs, "Age"),
                 LAMBDA v : Some(Element("Age", v)))
    /\ RoundTrip(b.ty = "TimeElementBuilder", TimeElementBuilder_ontology_class,
                 TimeElementBuilder_build, "element",
                 Records(OntologyClassArgs, "OntologyClass"),
                 LAMBDA v : Some(Element("OntologyClass", v)))
    /\ RoundTrip(b.ty = "TimeElementBuilder", TimeElementBuilder_timestamp,
                 TimeElementBuilder_build, "element",
                 Records(TimestampArgs, "Timestamp"),
                 LAMBDA v : Some(Element("Timestamp", v)))
    /\ RoundTrip(b.ty = "ExternalReferenceBuilder", ExternalReferenceBuilder_id,
                 ExternalReferenceBuilder_build, "id", ReferenceStrings,
                 LAMBDA v : v)
    /\ RoundTrip(b.ty = "ExternalReferenceBuilder",
                 ExternalReferenceBuilder_reference,
                 ExternalReferenceBuilder_build, "reference", ReferenceStrings,
                 LAMBDA v : v)
    /\ RoundTrip(b.ty = "ExternalReferenceBuilder",
                 ExternalReferenceBuilder_description,
                 ExternalReferenceBuilder_build, "description", ReferenceStrings,
                 LAMBDA v : v)

RoundTrip_individual ==
    /\ RoundTrip(b.ty = "VitalStatusBuilder", VitalStatusBuilder_status,
                 VitalStatusBuilder_build, "status", Status, Status_into)
    /\ RoundTrip(b.ty = "VitalStatusBuilder", VitalStatusBuilder_time_of_death,
                 VitalStatusBuilder_build, "time_of_death",
                 Records(TimeElementArgs, "TimeElement"), Some)
    /\ RoundTrip(b.ty = "VitalStatusBuilder", VitalStatusBuilder_cause_of_death,
                 VitalStatusBuilder_build, "cause_of_death",
                 Records(OntologyClassArgs, "OntologyClass"), Some)
    /\ RoundTrip(b.ty = "VitalStatusBuilder",
                 VitalStatusBuilder_survival_time_in_days,
                 VitalStatusBuilder_build, "survival_time_in_days", SurvivalDays,
                 LAMBDA v : v)
    /\ RoundTrip(b.ty = "IndividualBuilder" /\ b.data = <<Unset>>,
                 IndividualBuilder_id, IndividualBuilder_build, "id",
                 IndividualIds, LAMBDA v : v)
    /\ RoundTrip(b.ty = "IndividualBuilder", IndividualBuilder_date_of_birth,
                 IndividualBuilder_build, "date_of_birth",
                 Records(TimestampArgs, "Timestamp"), Some)
    /\ RoundTrip(b.ty = "IndividualBuilder",
                 IndividualBuilder_time_at_last_encounter,
                 IndividualBuilder_build, "time_at_last_encounter",
                 Records(TimeElementArgs, "TimeElement"), Some)
    /\ RoundTrip(b.ty = "IndividualBuilder", IndividualBuilder_vital_status,
                 IndividualBuilder_build, "vital_status",
                 Records(VitalStatusArgs, "VitalStatus"), Some)
    /\ RoundTrip(b.ty = "IndividualBuilder", IndividualBuilder_sex,
                 IndividualBuilder_build, "sex", Sex, Sex_into)
    /\ RoundTrip(b.ty = "IndividualBuilder", IndividualBuilder_karyotypic_sex,
                 IndividualBuilder_build, "karyotypic_sex", KaryotypicSex,
                 KaryotypicSex_into)
    /\ RoundTrip(b.ty = "IndividualBuilder", IndividualBuilder_gender,
                 IndividualBuilder_build, "gender",
                 Records(OntologyClassArgs, "OntologyClass"), Some)
    /\ RoundTrip(b.ty = "IndividualBuilder", IndividualBuilder_taxonomy,
                 IndividualBuilder_build, "taxonomy",
                 Records(OntologyClassArgs, "OntologyClass"), Some)

RoundTrip_meta_data ==
    /\ RoundTrip(b.ty = "ResourceBuilder" /\ b.data[1] = Unset,
                 ResourceBuilder_id, ResourceBuilder_build, "id",
                 ResourceValues.id, LAMBDA v : v)
    /\ RoundTrip(b.ty = "ResourceBuilder" /\ b.data[2] = Unset,
                 ResourceBuilder_name, ResourceBuilder_build, "name",
                 ResourceValues.name, LAMBDA v : v)
    /\ RoundTrip(b.ty = "ResourceBuilder" /\ b.data[3] = Unset,
                 ResourceBuilder_namespace_prefix, ResourceBuilder_build, "namespace_prefix",
                 ResourceValues.namespace_prefix, LAMBDA v : v)
    /\ RoundTrip(b.ty = "ResourceBuilder" /\ b.data[4] = Unset,
                 ResourceBuilder_url, ResourceBuilder_build, "url",
                 ResourceValues.url, LAMBDA v : v)
    /\ RoundTrip(b.ty = "ResourceBuilder" /\ b.data[5] = Unset,
                 ResourceBuilder_version, ResourceBuilder_build, "version",
                 ResourceValues.version, LAMBDA v : v)
    /\ RoundTrip(b.ty = "ResourceBuilder" /\ b.data[6] = Unset,
                 ResourceBuilder_iri_prefix, ResourceBuilder_build, "iri_prefix",
                 ResourceValues.iri_prefix, LAMBDA v : v)
    /\ RoundTrip(b.ty = "UpdateBuilder" /\ b.data = <<Unset>>,
                 UpdateBuilder_timestamp, UpdateBuilder_build, "timestamp",
                 Records(TimestampArgs, "Timestamp"), Some)
    /\ RoundTrip(b.ty = "UpdateBuilder", UpdateBuilder_updated_by,
                 UpdateBuilder_build, "updated_by", Names, LAMBDA v : v)
    /\ RoundTrip(b.ty = "UpdateBuilder", UpdateBuilder_comment,
                 UpdateBuilder_build, "comment", Comments, LAMBDA v : v)
    /\ RoundTrip(b.ty = "MetaDataBuilder" /\ b.data[1] = Unset,
                 MetaDataBuilder_created, MetaDataBuilder_build, "created",
                 Records(TimestampArgs, "Timestamp"), Some)
    /\ RoundTrip(b.ty = "MetaDataBuilder" /\ b.data[2] = Unset,
                 MetaDataBuilder_created_by, MetaDataBuilder_build, "created_by",
                 Names, LAMBDA v : v)
    /\ RoundTrip(b.ty = "MetaDataBuilder" /\ b.data[3] = Unset,
                 MetaDataBuilder_phenopacket_schema_version, MetaDataBuilder_build,
                 "phenopacket_schema_version", SchemaVersions, LAMBDA v : v)
    /\ RoundTrip(b.ty = "MetaDataBuilder", MetaDataBuilder_submitted_by,
                 MetaDataBuilder_build, "submitted_by", Names, LAMBDA v : v)

RoundTrip_phenopackets ==
    /\ RoundTrip(b.ty = "PhenotypicFeatureBuilder" /\ b.data = <<Unset>>,
                 PhenotypicFeatureBuilder_type, PhenotypicFeatureBuilder_build,
                 "type", Records(OntologyClassArgs, "OntologyClass"), Some)
    /\ RoundTrip(b.ty = "PhenotypicFeatureBuilder",
                 PhenotypicFeatureBuilder_description,
                 PhenotypicFeatureBuilder_build, "description", Descriptions,
                 LAMBDA v : v)
    /\ RoundTrip(b.ty = "PhenotypicFeatureBuilder",
                 PhenotypicFeatureBuilder_severity, PhenotypicFeatureBuilder_build,
                 "severity", Records(OntologyClassArgs, "OntologyClass"), Some)
    /\ RoundTrip(b.ty = "PhenotypicFeatureBuilder", PhenotypicFeatureBuilder_onset,
                 PhenotypicFeatureBuilder_build, "onset",
                 Records(TimeElementArgs, "TimeElement"), Some)
    /\ RoundTrip(b.ty = "PhenotypicFeatureBuilder",
                 PhenotypicFeatureBuilder_resolution,
                 PhenotypicFeatureBuilder_build, "resolution",
                 Records(TimeElementArgs, "TimeElement"), Some)
    /\ RoundTrip(b.ty = "PhenopacketBuilder" /\ b.data[1] = Unset,
                 PhenopacketBuilder_id, PhenopacketBuilder_build, "id",
                 PhenopacketIds, LAMBDA v : v)
    /\ RoundTrip(b.ty = "PhenopacketBuilder" /\ b.data[2] = Unset,
                 PhenopacketBuilder_meta_data, PhenopacketBuilder_build,
                 "meta_data", Records(MetaDataArgs, "MetaData"), Some)
    /\ RoundTrip(b.ty = "PhenopacketBuilder", PhenopacketBuilder_subject,
                 PhenopacketBuilder_build, "subject",
                 Records(IndividualArgs, "Individual"), Some)

\* Resource::builder() followed by the six setters, each once, and build.
RoundTrip_Resource ==
    b = Buildable.Resource =>
       \A v \in Product([i \in 1..6 |-> MandatoryValues.ResourceBuilder[i]]) :
          ResourceBuilder_build(in_order(b, <<1, 2, 3, 4, 5, 6>>, v)) =
             [ty |-> "Resource", id |-> v[1], name |-> v[2],
              namespace_prefix |-> v[3], url |-> v[4], version |-> v[5],
              iri_prefix |-> v[6]]

\* C17: from every state of every builder, a setter called with a literal
\* stores it under its own field and under no other, and the record that
\* build returns reads that literal under that field; a record built by one
\* call of each setter reads exactly the values supplied.
C17_RoundTrip ==
    ~panicked =>
       /\ RoundTrip_base
       /\ RoundTrip_individual
       /\ RoundTrip_meta_data
       /\ RoundTrip_phenopackets
       /\ RoundTrip_Resource

\* A Resource built from a builder whose six fields were set one by one.
C17_Witness ==
    /\ out.ty = "Resource"
    /\ from.ty = "ResourceBuilder"
    /\ out.id = "id-1"
    /\ out.url = "url-2"
    /\ out.iri_prefix = "iri-1"

(***************************************************************************)
(* OntologyClass::builder().id_label(..).build()                           *)
(***************************************************************************)
\* C18: an OntologyClass that a chain has built holds the id and the label
\* given to id_label ("HP:0001250" and "Seizure" give id = "HP:0001250" and
\* label = "Seizure"); a builder holds an id exactly when it holds a label;
\* and build cannot be called on a builder that holds no id or no label.
C18_OntologyClass ==
    /\ (out.ty = "OntologyClass" /\ from # Moved) =>
          /\ from.ty = "OntologyClassBuilder"
          /\ from.id = Some(out.id) /\ from.label = Some(out.label)
          /\ \E p \in OntologyClassPairs : out.id = p[1] /\ out.label = p[2]
    /\ b.ty = "OntologyClassBuilder" =>
          /\ IsSome(b.id) <=> IsSome(b.label)
          /\ (b.id = None \/ b.label = None) =>
                ~ENABLED OntologyClassBuilder_Set_build
          /\ b.data = <<Unset>> =>
                LET r == OntologyClassBuilder_build(
                            OntologyClassBuilder_id_label(b, "HP:0001250", "Seizure"))
                IN  r.id = "HP:0001250" /\ r.label = "Seizure"

\* The OntologyClass HP:0001250 / Seizure, built by a chain.
C18_Witness ==
    /\ out = [ty |-> "OntologyClass", id |-> "HP:0001250", label |-> "Seizure"]
    /\ from.ty = "OntologyClassBuilder"
    /\ from.data = <<Set>>

(***************************************************************************)
(* TimestampBuilder::iso8601timestamp                                      *)
(***************************************************************************)
\* C19: a call of iso8601timestamp whose string does not parse returns the
\* error and leaves the builder as it was before the call, still there for
\* another call.
C19_ErrorLeavesBuilder ==
    [][(TimestampBuilder_Unset /\ out'.ty = "TimestampError") => b' = b]_vars

(***************************************************************************)
(* The presets of ResourceBuilder                                          *)
(***************************************************************************)
\* What a preset returns: six markers Set, six values, the version given
\* ("" from pmid), a builder that build takes.
Preset_returns(r, preset, version) ==
    /\ r.ty = "ResourceBuilder"
    /\ r.data = <<Set, Set, Set, Set, Set, Set>>
    /\ \A f \in {"id", "name", "namespace_prefix", "url", "version", "iri_prefix"} :
          IsSome(r[f])
    /\ r.version = Some(IF preset = "pmid" THEN "" ELSE version)
    /\ Build_Resource_impl(r)
    /\ ResourceBuilder_build(r) # Panic
    /\ ResourceBuilder_build(r).version = (IF preset = "pmid" THEN "" ELSE version)

\* C20: the presets are hpo .. pmid; in every state of a ResourceBuilder each
\* of them returns a builder with the six markers Set, the six values
\* present and the version given ("" for pmid); no call of a preset leads
\* anywhere else; and build can be called on the builder a preset returned.
C20_Presets ==
    /\ DOMAIN ResourcePresets =
          {"hpo", "geno", "ncit", "mondo", "uberon", "ncbi_taxon", "so", "ucum",
           "uo", "loinc", "omim", "hgnc", "pmid"}
    /\ (b.ty = "ResourceBuilder" /\ ~panicked) =>
          /\ \A preset \in DOMAIN ResourcePresets, v \in ResourceValues.version :
                /\ Preset_returns(ResourceBuilder_preset(b, preset, v), preset, v)
                /\ Callable(ResourceBuilder_T_U_V_X_Y_Z,
                            ResourceBuilder_preset(b, preset, v))
          /\ ~ENABLED (ResourceBuilder_T_U_V_X_Y_Z /\
                         ~(\E preset \in DOMAIN ResourcePresets,
                              v \in ResourceValues.version :
                                Preset_returns(b', preset, v)))
          /\ (\E preset \in DOMAIN ResourcePresets, v \in ResourceValues.version :
                 b = ResourceBuilder_preset(b, preset, v)) =>
                ENABLED ResourceBuilder_Set_build

\* The Resource built right after pmid().
C20_Witness ==
    /\ out.ty = "Resource"
    /\ from.ty = "ResourceBuilder"
    /\ out.id = "pmid"
    /\ out.version = ""
    /\ out.iri_prefix = "https://pubmed.ncbi.nlm.nih.gov/"

(***************************************************************************)
(* Consumption: every method takes self by value                           *)
(***************************************************************************)
\* The impl blocks whose methods return a builder.
Setter ==
    \/ OntologyClassBuilder_Unset
    \/ TimestampBuilder_Unset
    \/ AgeBuilder_Unset
    \/ GestationalAgeBuilder_Unset
    \/ GestationalAgeBuilder_T
    \/ TimeElementBuilder_T
    \/ VitalStatusBuilder_T
    \/ ResourceBuilder_Unset_id
    \/ ResourceBuilder_Unset_name
    \/ ResourceBuilder_Unset_namespace_prefix
    \/ ResourceBuilder_Unset_url
    \/ ResourceBuilder_Unset_version
    \/ ResourceBuilder_Unset_iri_prefix
    \/ ResourceBuilder_T_U_V_X_Y_Z
    \/ UpdateBuilder_Unset
    \/ UpdateBuilder_T
    \/ ExternalReferenceBuilder_impl
    \/ MetaDataBuilder_Unset_U_V
    \/ MetaDataBuilder_T_Unset_V
    \/ MetaDataBuilder_T_U_Unset
    \/ MetaDataBuilder_T_U_V
    \/ IndividualBuilder_T
    \/ IndividualBuilder_Unset
    \/ PhenotypicFeatureBuilder_Unset
    \/ PhenotypicFeatureBuilder_T
    \/ PhenopacketBuilder_Unset_U
    \/ PhenopacketBuilder_T_Unset
    \/ PhenopacketBuilder_T_U

\* The impls of Build<R> for the builders.
Finalize ==
    \/ OntologyClassBuilder_Set_build
    \/ TimestampBuilder_Set_build
    \/ AgeBuilder_Set_build
    \/ GestationalAgeBuilder_Set_build
    \/ TimeElementBuilder_Set_build
    \/ VitalStatusBuilder_Set_build
    \/ ResourceBuilder_Set_build
    \/ UpdateBuilder_Set_build
    \/ ExternalReferenceBuilder_Build_build
    \/ MetaDataBuilder_Set_build
    \/ IndividualBuilder_Set_build
    \/ PhenotypicFeatureBuilder_Set_build
    \/ PhenopacketBuilder_Set_build

\* C21: every setter and every build consumes the builder it is applied to.
\* A build leaves the chain with no builder (b is Moved) and the builder it
\* took is the one the chain held; while the chain holds a builder, the one
\* a setter returned, no other builder value is left over from the calls
\* before; on a moved builder no method is enabled, neither a setter nor a
\* second build, and the chain has no builder from a build onwards until
\* builder() starts another.
C21_Consumed ==
    /\ b = Moved => ~ENABLED (Setter \/ Finalize)
    /\ from # Moved => b = Moved
    /\ b # Moved => (from = Moved /\ out = NoRecord)
    /\ ~ENABLED (Finalize /\ ~(b' = Moved /\ from' = b))

\* A MetaData has been built from a builder that had gathered resources, and
\* the chain holds no builder.
C21_Witness ==
    /\ out.ty = "MetaData"
    /\ from.ty = "MetaDataBuilder"
    /\ Len(from.resources) > 0
    /\ b = Moved
    /\ ~ENABLED Finalize

(***************************************************************************)
(* Buildable::builder                                                      *)
(***************************************************************************)
\* The fields a builder struct stores as plain values, with the Default of
\* their types.
PlainFields ==
    [sex |-> "UNKNOWN_SEX", karyotypic_sex |-> "UNKNOWN_KARYOTYPE", excluded |-> FALSE]

\* Every marker Unset, every Option None, every Vec empty, every plain field
\* at the Default of its type.
AllEmpty(r) ==
    /\ \A i \in 1..Len(r.data) : r.data[i] = Unset
    /\ \A f \in DOMAIN r \ {"ty", "data"} :
          IF f \in DOMAIN PlainFields THEN r[f] = PlainFields[f] ELSE r[f] = <<>>

\* C22: R::builder() is there for every record type and returns the builder
\* of R in the all-Empty state, and nothing else; on that builder build is
\* not enabled when the builder has a marker (every builder but
\* ExternalReferenceBuilder, which has no mandatory field).
C22_BuilderAllEmpty ==
    /\ ~panicked =>
          \A R \in DOMAIN Buildable : Callable(Buildable_builder, Buildable[R])
    /\ ~ENABLED (Buildable_builder /\
                   ~(/\ \E R \in DOMAIN Buildable : b' = Buildable[R]
                     /\ AllEmpty(b')
                     /\ b'.ty \in DOMAIN Mandatory
                     /\ Len(b'.data) = Len(Mandatory[b'.ty])))
    /\ \A R \in DOMAIN Buildable :
          (b = Buildable[R] /\ Len(b.data) > 0) => ~ENABLED Finalize

\* The chain holds the builder that Phenopacket::builder() returned, and
\* cannot build it.
C22_Witness ==
    /\ b = Buildable["Phenopacket"]
    /\ b.data = <<Unset, Unset>>
    /\ b.id = None /\ b.meta_data = None /\ b.phenotypic_features = <<>>
    /\ out = NoRecord
    /\ ~ENABLED PhenopacketBuilder_Set_build

(***************************************************************************)
(* IndividualBuilder::alive and deceased                                   *)
(***************************************************************************)
\* What the four vital-status setters of IndividualBuilder return on self,
\* for the arguments they accept.
VitalStatusSetters(self) ==
    {IndividualBuilder_alive(self), IndividualBuilder_deceased(self)} \cup
    {IndividualBuilder_vital_status(self, a) :
        a \in Accepted(VitalStatusArgs, IndividualBuilder_bounds.vital_status)} \cup
    {IndividualBuilder_deceased_at(self, a) :
        a \in Accepted(TimeElementArgs, IndividualBuilder_bounds.deceased_at)}

\* set is the last vital-status call on pre: the builder and the Individual
\* built from it hold a vital status with that status and nothing else.
VitalStatusOnly(pre, set(_), status) ==
    LET vs == Some(VitalStatus(Status_into(status), None, None, 0))
    IN  /\ set(pre).vital_status = vs
        /\ \A id \in IndividualIds :
              /\ IndividualBuilder_build(IndividualBuilder_id(set(pre), id)) # Panic
              /\ IndividualBuilder_build(IndividualBuilder_id(set(pre), id)).vital_status = vs
        /\ pre.data = <<Set>> => IndividualBuilder_build(set(pre)).vital_status = vs

\* C23: in every state of an IndividualBuilder, whatever vital status it
\* holds and whichever vital-status setter is called on it first, alive()
\* (deceased()) leaves the vital status {Alive (Deceased), no time of death,
\* no cause of death, survival time 0}, which is what the finished
\* Individual holds.
C23_AliveDeceased ==
    (b.ty = "IndividualBuilder" /\ ~panicked) =>
       \A pre \in {b} \cup VitalStatusSetters(b) :
          /\ VitalStatusOnly(pre, IndividualBuilder_alive, "ALIVE")
          /\ VitalStatusOnly(pre, IndividualBuilder_deceased, "DECEASED")

\* An Individual built from a builder whose vital status is the one alive()
\* leaves.
C23_Witness ==
    /\ out.ty = "Individual"
    /\ from.ty = "IndividualBuilder"
    /\ from # IndividualBuilder_deceased(from)
    /\ from = IndividualBuilder_alive(from)
    /\ out.vital_status = Some(VitalStatus(1, None, None, 0))
    /\ out.sex = Sex_into("FEMALE")

(***************************************************************************)
(* Shortcuts                                                               *)
(***************************************************************************)
\* C24: each shortcut returns what its general form returns.  oc(id, label)
\* is the OntologyClass that builder().id_label(id, label).build() gives; on
\* every TimeElementBuilder age_iso8601duration(s) is age(Age::builder()
\* .iso8601duration(s)), gestational_age_weeks_days(w, d) is gestational_age(
\* GestationalAge::builder().weeks(w).days(d)) and gestational_age_weeks(w) is
\* gestational_age(GestationalAge::builder().weeks(w)), with 0 days; on every
\* IndividualBuilder male() is sex(Male), karyotypic_sex_xy() is
\* karyotypic_sex(Xy) and homo_sapiens() is taxonomy(oc("NCBITaxon:9606",
\* "homo sapiens")); on every MetaDataBuilder that has them v2() is
\* phenopacket_schema_version("2.0.0").
C24_Shortcuts ==
    /\ \A p \in OntologyClassPairs \cup {<<"NCBITaxon:9606", "homo sapiens">>} :
          oc(p[1], p[2]) =
             OntologyClassBuilder_build(
                 OntologyClassBuilder_id_label(Buildable["OntologyClass"], p[1], p[2]))
    /\ b.ty = "TimeElementBuilder" =>
          /\ \A s \in Durations :
                TimeElementBuilder_age_iso8601duration(b, s) =
                   TimeElementBuilder_age(b,
                       AgeBuilder_iso8601duration(Buildable["Age"], s))
          /\ \A w \in Weeks, d \in Days :
                TimeElementBuilder_gestational_age_weeks_days(b, w, d) =
                   TimeElementBuilder_gestational_age(b,
                       GestationalAgeBuilder_days(
                           GestationalAgeBuilder_weeks(Buildable["GestationalAge"], w), d))
          /\ \A w \in Weeks :
                /\ TimeElementBuilder_gestational_age_weeks(b, w) =
                      TimeElementBuilder_gestational_age(b,
                          GestationalAgeBuilder_weeks(Buildable["GestationalAge"], w))
                /\ TimeElementBuilder_build(
                       TimeElementBuilder_gestational_age_weeks(b, w)).element[1].value.days = 0
    /\ b.ty = "IndividualBuilder" =>
          /\ IndividualBuilder_male(b) = IndividualBuilder_sex(b, "MALE")
          /\ IndividualBuilder_karyotypic_sex_shortcut(b, "karyotypic_sex_xy") =
                IndividualBuilder_karyotypic_sex(b, "XY")
          /\ IndividualBuilder_homo_sapiens(b) =
                IndividualBuilder_taxonomy(b, oc("NCBITaxon:9606", "homo sapiens"))
    /\ (b.ty = "MetaDataBuilder" /\ b.data[3] = Unset) =>
          MetaDataBuilder_v2(b) = MetaDataBuilder_phenopacket_schema_version(b, "2.0.0")

\* An Individual whose taxonomy is the one homo_sapiens() writes, with the
\* sex and the karyotypic sex that male() and karyotypic_sex_xy() write.
C24_Witness ==
    /\ out.ty = "Individual"
    /\ out.taxonomy = Some(oc("NCBITaxon:9606", "homo sapiens"))
    /\ out.sex = Sex_into("MALE")
    /\ out.karyotypic_sex = KaryotypicSex_into("XY")

(***************************************************************************)
(* VitalStatusBuilder::status                                              *)
(***************************************************************************)
\* What status(st) returns on self: the marker Set, the status st, the
\* other three fields as they were.
Status_returns(self, r, st) ==
    /\ r.ty = "VitalStatusBuilder"
    /\ r.data = <<Set>>
    /\ r.status = Some(st)
    /\ r.time_of_death = self.time_of_death
    /\ r.cause_of_death = self.cause_of_death
    /\ r.survival_time_in_days = self.survival_time_in_days

\* C25: in every state of a VitalStatusBuilder, its marker Unset or Set,
\* status, alive and deceased can be called; each returns a builder with the
\* marker Set, the status given and the other fields untouched; and of two
\* calls in a row the second decides the status of the builder and of the
\* VitalStatus built from it.
C25_StatusAgain ==
    (b.ty = "VitalStatusBuilder" /\ ~panicked) =>
       /\ \A st \in Status :
             /\ Callable(VitalStatusBuilder_T, VitalStatusBuilder_status(b, st))
             /\ Status_returns(b, VitalStatusBuilder_status(b, st), st)
       /\ Callable(VitalStatusBuilder_T, VitalStatusBuilder_alive(b))
       /\ Callable(VitalStatusBuilder_T, VitalStatusBuilder_deceased(b))
       /\ Status_returns(b, VitalStatusBuilder_alive(b), "ALIVE")
       /\ Status_returns(b, VitalStatusBuilder_deceased(b), "DECEASED")
       /\ \A s1, s2 \in Status :
             LET r == VitalStatusBuilder_status(VitalStatusBuilder_status(b, s1), s2)
             IN  /\ Status_returns(b, r, s2)
                 /\ r = VitalStatusBuilder_status(b, s2)
                 /\ VitalStatusBuilder_build(r).status = Status_into(s2)
                 /\ VitalStatusBuilder_build(r).time_of_death = b.time_of_death
                 /\ VitalStatusBuilder_build(r).cause_of_death = b.cause_of_death

\* A VitalStatusBuilder<Set> that holds a status, a time of death, a cause
\* of death and a survival time, on which status can be called again.
C25_Witness ==
    /\ b.ty = "VitalStatusBuilder"
    /\ b.data = <<Set>>
    /\ b.status = Some("DECEASED")
    /\ IsSome(b.time_of_death)
    /\ IsSome(b.cause_of_death)
    /\ b.survival_time_in_days = Some(30)
    /\ Callable(VitalStatusBuilder_T, VitalStatusBuilder_alive(b))

(***************************************************************************)
(* A preset overwrites the builder                                         *)
(***************************************************************************)
\* C26: in every state of a ResourceBuilder, whatever its six markers, each
\* preset can be called, and what it returns is what it returns on the
\* builder that Resource::builder() gives: the values the builder held are
\* gone, and the Resource built holds the preset's values and the version
\* given ("" from pmid).
C26_PresetOverwrites ==
    (b.ty = "ResourceBuilder" /\ ~panicked) =>
       \A preset \in DOMAIN ResourcePresets, v \in ResourceValues.version :
          LET r == ResourceBuilder_preset(b, preset, v)
          IN  /\ Callable(ResourceBuilder_T_U_V_X_Y_Z, r)
              /\ r = ResourceBuilder_preset(Buildable["Resource"], preset, v)
              /\ ResourceBuilder_build(r) =
                    Resource(ResourcePresets[preset].id, ResourcePresets[preset].name,
                             ResourcePresets[preset].url,
                             IF preset = "pmid" THEN "" ELSE v,
                             ResourcePresets[preset].namespace_prefix,
                             ResourcePresets[preset].iri_prefix)

\* A ResourceBuilder with some markers Set and some Unset, holding values
\* that no preset writes, on which hpo can be called.
C26_Witness ==
    /\ b.ty = "ResourceBuilder"
    /\ b.data = <<Set, Unset, Unset, Set, Set, Unset>>
    /\ b.id = Some("id-2")
    /\ b.url = Some("url-1")
    /\ b.version = Some("2018-03-08")
    /\ Callable(ResourceBuilder_T_U_V_X_Y_Z,
                ResourceBuilder_preset(b, "hpo", "2018-03-19"))

(***************************************************************************)
(* Mandatory fields that the record stores as Option                       *)
(***************************************************************************)
\* The records whose mandatory field is an Option, and that field.
OptionInRecord ==
    [MetaData |-> "created", Phenopacket |-> "meta_data",
     PhenotypicFeature |-> "type", Update |-> "timestamp", TimeElement |-> "element"]

\* C27: a finished MetaData has its created, a finished Phenopacket its
\* meta_data, a finished PhenotypicFeature its type, a finished Update its
\* timestamp and a finished TimeElement its element: the field is Some in
\* every record a build returned, and it is the value the builder held; and
\* build can run only on a builder that holds it.
C27_MandatoryPresent ==
    /\ out.ty \in DOMAIN OptionInRecord =>
          /\ IsSome(out[OptionInRecord[out.ty]])
          /\ out[OptionInRecord[out.ty]] = from[OptionInRecord[out.ty]]
    /\ \A R \in DOMAIN OptionInRecord :
          (b.ty = Buildable[R].ty /\ b[OptionInRecord[R]] = None) => ~ENABLED Finalize

\* An Update has been built, with the timestamp its builder held and no
\* comment.
C27_Witness ==
    /\ out.ty = "Update"
    /\ from.ty = "UpdateBuilder"
    /\ out.timestamp = Some(Timestamp(605, 0))
    /\ out.comment = ""

(***************************************************************************)
(* iso8601timestamp: Ok only when the string parses                        *)
(***************************************************************************)
\* C28: iso8601timestamp(s) is Ok exactly when s parses, and then it is a
\* TimestampBuilder<Set> that holds the parser's timestamp, which is what
\* build gives; when s does not parse it is the parser's error and nothing
\* else.  After such a call the chain holds the error and no builder: no
\* setter and no build is enabled, so no Timestamp comes out of the call.
C28_OkIffParsed ==
    /\ (b.ty = "TimestampBuilder" /\ b.data = <<Unset>> /\ ~panicked) =>
          /\ \A s \in TimestampStrings :
                LET r == TimestampBuilder_iso8601timestamp(b, s)
                IN  /\ r.ok = parse(s).ok
                    /\ r.ok =>
                          /\ r.v.ty = "TimestampBuilder" /\ r.v.data = <<Set>>
                          /\ r.v.timestamp = Some(parse(s).v)
                          /\ TimestampBuilder_build(r.v) = parse(s).v
                          /\ Callable(TimestampBuilder_Unset, r.v)
                    /\ ~r.ok =>
                          /\ r.v = parse(s).v
                          /\ r.v.ty = "TimestampError"
                          /\ ENABLED (TimestampBuilder_Unset /\ out' = r.v /\ b' = Moved)
          /\ ~ENABLED (TimestampBuilder_Unset /\
                         ~(\/ b' = Moved /\ out'.ty = "TimestampError"
                           \/ /\ b'.ty = "TimestampBuilder" /\ b'.data = <<Set>>
                              /\ IsSome(b'.timestamp) /\ out' = out))
    /\ out.ty = "TimestampError" =>
          /\ b = Moved
          /\ ~parse(out.input).ok
          /\ ~ENABLED (Setter \/ Finalize)

\* The chain ended with the error of a string that does not parse, and holds
\* no builder to build a Timestamp from.
C28_Witness ==
    /\ out.ty = "TimestampError"
    /\ out.input = "2018-03"
    /\ b = Moved
    /\ ~ENABLED TimestampBuilder_Set_build

(***************************************************************************)
(* No dead end                                                             *)
(***************************************************************************)
\* The impl blocks that hold the setters of the mandatory fields.
MandatorySetter ==
    \/ OntologyClassBuilder_Unset
    \/ TimestampBuilder_Unset
    \/ AgeBuilder_Unset
    \/ GestationalAgeBuilder_Unset
    \/ TimeElementBuilder_T
    \/ VitalStatusBuilder_T
    \/ ResourceBuilder_Unset_id
    \/ ResourceBuilder_Unset_name
    \/ ResourceBuilder_Unset_namespace_prefix
    \/ ResourceBuilder_Unset_url
    \/ ResourceBuilder_Unset_version
    \/ ResourceBuilder_Unset_iri_prefix
    \/ UpdateBuilder_Unset
    \/ MetaDataBuilder_Unset_U_V
    \/ MetaDataBuilder_T_Unset_V
    \/ MetaDataBuilder_T_U_Unset
    \/ IndividualBuilder_Unset
    \/ PhenotypicFeatureBuilder_Unset
    \/ PhenopacketBuilder_Unset_U
    \/ PhenopacketBuilder_T_Unset

\* The markers of a builder that are Unset.
UnsetMarkers(self) == {i \in 1..Len(self.data) : self.data[i] = Unset}

\* C29: no state of a builder is a dead end.  For every marker that is Unset
\* a mandatory setter is enabled that sets that marker and no other, so the
\* number of Unset markers can go down by one from every state that has
\* one; and in a state that has none build is enabled.  After as many
\* mandatory setters as there are Unset markers the builder can be built,
\* whatever was called on it before.
C29_NoDeadEnd ==
    (b.ty \in DOMAIN Mandatory /\ ~panicked) =>
       /\ \A i \in UnsetMarkers(b) :
             ENABLED (/\ MandatorySetter
                      /\ b'.ty = b.ty
                      /\ b'.data = [b.data EXCEPT ![i] = Set]
                      /\ ~panicked')
       /\ UnsetMarkers(b) = {} => ENABLED (Finalize /\ out' # NoRecord /\ ~panicked')

\* A PhenopacketBuilder that holds its meta_data, a subject and features but
\* no id: build is not enabled, id is.
C29_Witness ==
    /\ b.ty = "PhenopacketBuilder"
    /\ b.data = <<Unset, Set>>
    /\ IsSome(b.subject)
    /\ Len(b.phenotypic_features) = MaxLen
    /\ ~ENABLED Finalize
    /\ ENABLED PhenopacketBuilder_Unset_U

(***************************************************************************)
(* The presets are told apart by their values                              *)
(***************************************************************************)
\* The Resource built right after the preset.
Preset_build(self, preset, version) ==
    ResourceBuilder_build(ResourceBuilder_preset(self, preset, version))

\* C30: two different presets never give the same url, nor the same id,
\* namespace_prefix or iri_prefix: on every ResourceBuilder the Resources
\* built after two different presets differ in each of the four fields.
C30_DistinctUrls ==
    (b.ty = "ResourceBuilder" /\ ~panicked) =>
       \A p, q \in DOMAIN ResourcePresets, v \in ResourceValues.version :
          p # q =>
             /\ Preset_build(b, p, v).url # Preset_build(b, q, v).url
             /\ Preset_build(b, p, v).id # Preset_build(b, q, v).id
             /\ Preset_build(b, p, v).namespace_prefix #
                   Preset_build(b, q, v).namespace_prefix
             /\ Preset_build(b, p, v).iri_prefix # Preset_build(b, q, v).iri_prefix

====
